---------------------------- MODULE Spec2Model ----------------------------
(***************************************************************************)
(* ArXivPagestBot3: the pipeline of create_arXiv_page.py (search, cache,   *)
(* per-paper download / extract / summarize / persist, render) and the     *)
(* pure helpers it relies on (truncate_text, get_cache_key, the post text  *)
(* and the arXiv-id derivations).                                          *)
(*                                                                         *)
(* Text is modelled at character level: a Python str is a sequence of     *)
(* Unicode code points (naturals), so slicing, joining, sorting and        *)
(* length are computed the way the code computes them.                     *)
(***************************************************************************)
EXTENDS Integers, Sequences, FiniteSets, TLC

(***************************************************************************)
(* Bounds of the model.                                                    *)
(***************************************************************************)
\* documents the Fetcher can return (the arXiv universe of the model)
NDocs == 2
\* invocations of main() in one behaviour
MaxRuns == 2
\* operations hit by an environment failure (network, API, disk) in one
\* behaviour
MaxFaults == 1

(***************************************************************************)
(* String literals of the source, as code points.                          *)
(***************************************************************************)
\* "https://arxiv.org/abs/"
AbsUrlPrefix == <<104, 116, 116, 112, 115, 58, 47, 47, 97, 114, 120, 105, 118, 46, 111, 114, 103, 47, 97, 98, 115, 47>>
\* " C(・ω・ )つ みんなー！"
Greeting == <<32, 67, 40, 12539, 969, 12539, 32, 41, 12388, 32, 12415, 12435, 12394, 12540, 65281>>
\* "\n...(中略)...\n"
OmissionMarker == <<10, 46, 46, 46, 40, 20013, 30053, 41, 46, 46, 46, 10>>
\* ".pdf"
PdfExt == <<46, 112, 100, 102>>
\* ".txt"
TxtExt == <<46, 116, 120, 116>>
\* "_summary.json"
SummarySuffix == <<95, 115, 117, 109, 109, 97, 114, 121, 46, 106, 115, 111, 110>>
\* "_log.json"
LogSuffix == <<95, 108, 111, 103, 46, 106, 115, 111, 110>>
\* "search_"
SearchPrefix == <<115, 101, 97, 114, 99, 104, 95>>
\* "paper_"
PaperPrefix == <<112, 97, 112, 101, 114, 95>>
\* "http://arxiv.org/abs/"
EntryIdPrefix == <<104, 116, 116, 112, 58, 47, 47, 97, 114, 120, 105, 118, 46, 111, 114, 103, 47, 97, 98, 115, 47>>
\* "\n\n"
BlankLine == <<10, 10>>
Slash == 47
Dot == 46
Colon == 58
Hyphen == 45
Underscore == 95
Space == 32
Newline == 10
Tab == 9

(***************************************************************************)
(* Python str primitives.                                                  *)
(***************************************************************************)
\* Python's None
None == [py |-> "None"]

Min(a, b) == IF a <= b THEN a ELSE b
Max(a, b) == IF a >= b THEN a ELSE b

\* s[a:b] for 0 <= a, 0 <= b (Python clamps to the length)
Slice(s, a, b) == SubSeq(s, Min(a, Len(s)) + 1, Min(b, Len(s)))

\* s[k:] with k possibly negative
SliceFrom(s, k) == IF k < 0 THEN SubSeq(s, Max(Len(s) + k, 0) + 1, Len(s))
                            ELSE SubSeq(s, Min(k, Len(s)) + 1, Len(s))

\* s.endswith(suffix)
EndsWith(s, suffix) ==
    /\ Len(s) >= Len(suffix)
    /\ SubSeq(s, Len(s) - Len(suffix) + 1, Len(s)) = suffix

\* positions of character c in s
Positions(s, c) == {i \in 1..Len(s) : s[i] = c}

SetMax(S) == CHOOSE x \in S : \A y \in S : y <= x
SetMin(S) == CHOOSE x \in S : \A y \in S : x <= y

\* s.split('/')[-1]
LastPart(s) == IF Positions(s, Slash) = {} THEN s
               ELSE SubSeq(s, SetMax(Positions(s, Slash)) + 1, Len(s))

\* urlparse(url).path for a URL without query, fragment or parameters
UrlPath(url) ==
    LET marks == {i \in 1..(Len(url) - 2) :
                    url[i] = Colon /\ url[i + 1] = Slash /\ url[i + 2] = Slash}
    IN  IF marks = {} THEN url
        ELSE LET host == SetMin(marks) + 3
                 cut  == {i \in host..Len(url) : url[i] = Slash}
             IN  IF cut = {} THEN <<>> ELSE SubSeq(url, SetMin(cut), Len(url))

\* os.path.splitext(name)[0] for a name without directory separators
SplitextRoot(name) ==
    LET dots == Positions(name, Dot)
    IN  IF dots = {} THEN name
        ELSE LET d == SetMax(dots)
             IN  IF \A i \in 1..(d - 1) : name[i] = Dot THEN name
                 ELSE SubSeq(name, 1, d - 1)

\* the characters str.strip() removes: the ASCII whitespace (tab, newline,
\* vertical tab, form feed, carriage return, space)
IsSpace(c) == c \in {Space, Newline, Tab} \cup {11, 12, 13}

\* s.strip()
Strip(s) ==
    LET keep == {i \in 1..Len(s) : ~IsSpace(s[i])}
    IN  IF keep = {} THEN <<>> ELSE SubSeq(s, SetMin(keep), SetMax(keep))

\* s.startswith(prefix)
StartsWith(s, prefix) ==
    /\ Len(s) >= Len(prefix)
    /\ SubSeq(s, 1, Len(prefix)) = prefix

\* s.split(sep) for a separator of one character: the parts between the
\* separators, empty parts kept
RECURSIVE Split(_, _)
Split(s, sep) ==
    IF Positions(s, sep) = {} THEN <<s>>
    ELSE LET p == SetMin(Positions(s, sep))
         IN  <<SubSeq(s, 1, p - 1)>> \o Split(SubSeq(s, p + 1, Len(s)), sep)

\* s.split(): the parts between runs of whitespace, no empty parts
RECURSIVE SplitWhitespace(_)
SplitWhitespace(s) ==
    LET keep == {i \in 1..Len(s) : ~IsSpace(s[i])}
    IN  IF keep = {} THEN <<>>
        ELSE LET a == SetMin(keep)
                 stops == {i \in a..Len(s) : IsSpace(s[i])}
                 b == IF stops = {} THEN Len(s) ELSE SetMin(stops) - 1
             IN  <<SubSeq(s, a, b)>> \o SplitWhitespace(SubSeq(s, b + 1, Len(s)))

\* the decimal digits: c is one, a text is made of them, its value
IsDigit(c) == c \in 48..57
AllDigits(s) == \A i \in 1..Len(s) : IsDigit(s[i])
RECURSIVE DigitsValue(_)
DigitsValue(s) ==
    IF s = <<>> THEN 0
    ELSE 10 * DigitsValue(SubSeq(s, 1, Len(s) - 1)) + (s[Len(s)] - 48)

\* a number formatted as %02d and as %04d
Pad2(n) == <<48 + ((n \div 10) % 10), 48 + (n % 10)>>
Pad4(n) == <<48 + ((n \div 1000) % 10), 48 + ((n \div 100) % 10)>> \o Pad2(n)


(***************************************************************************)
(* arXiv-id derivations (arxiv_downloader.py).                             *)
(***************************************************************************)
\* extract_arxiv_id(paper): the last path part of pdf_url, less a ".pdf" suffix
extract_arxiv_id(paper) ==
    LET arxiv_id == LastPart(UrlPath(paper.pdf_url))
    IN  IF EndsWith(arxiv_id, PdfExt) THEN Slice(arxiv_id, 0, Len(arxiv_id) - 4)
        ELSE arxiv_id

\* download_pdf: the file name under dl/ (the last path part, ".pdf" appended
\* when missing)
DownloadFileName(paper) ==
    LET arxiv_id == LastPart(UrlPath(paper.pdf_url))
    IN  IF ~EndsWith(arxiv_id, PdfExt) THEN arxiv_id \o PdfExt ELSE arxiv_id

\* download_pdf: arxiv_id_without_ext, the id process_paper and
\* generate_summary persist under
MutDownloadArxivIdKeepsExt(paper) == DownloadFileName(paper)
DownloadArxivId(paper) == SplitextRoot(DownloadFileName(paper))

\* extract_text_from_pdf: the name of the text file written for a pdf
TextFileName(pdf_name) == SplitextRoot(pdf_name) \o TxtExt

\* f"{arxiv_id}_summary.json"
SummaryFileName(arxiv_id) == arxiv_id \o SummarySuffix

\* f"{arxiv_id}_log.json"
LogFileName(arxiv_id) == arxiv_id \o LogSuffix

\* generate_summary, line 83: the file under summary_dir it saves its result
\* to, f"{arxiv_id}_summary.json"
MutSummarizerOwnFile(arxiv_id) == arxiv_id \o LogSuffix
SummarizerFileName(arxiv_id) == arxiv_id \o SummarySuffix

(***************************************************************************)
(* truncate_text (ai_summarizer.py).                                       *)
(***************************************************************************)
\* the default of max_length
DefaultMaxLength == 10000

\* text[-max_length // 2:]: unary minus binds before //, and // floors
MutLastPartDropsOne(text, max_length) == SliceFrom(text, ((-max_length) \div 2) + 1)
TruncLastPart(text, max_length) == SliceFrom(text, (-max_length) \div 2)

\* text[:max_length // 2]
TruncFirstPart(text, max_length) == Slice(text, 0, max_length \div 2)

truncate_text(text, max_length) ==
    IF Len(text) <= max_length THEN text
    ELSE TruncFirstPart(text, max_length) \o OmissionMarker \o TruncLastPart(text, max_length)

(***************************************************************************)
(* get_cache_key (create_arXiv_page.py).                                   *)
(***************************************************************************)
\* str comparison a <= b: lexicographic by code point
RECURSIVE StrLeq(_, _)
StrLeq(a, b) ==
    IF a = <<>> THEN TRUE
    ELSE IF b = <<>> THEN FALSE
    ELSE IF Head(a) < Head(b) THEN TRUE
    ELSE IF Head(a) > Head(b) THEN FALSE
    ELSE StrLeq(Tail(a), Tail(b))

\* insert x into the sorted list l, after the elements equal to it (stable)
RECURSIVE Insert(_, _)
Insert(x, l) ==
    IF l = <<>> THEN <<x>>
    ELSE IF StrLeq(Head(l), x) THEN <<Head(l)>> \o Insert(x, Tail(l))
    ELSE <<x>> \o l

\* sorted(keywords)
MutSortedKeepsOrder(keywords) == keywords
RECURSIVE sorted(_)
sorted(keywords) ==
    IF keywords = <<>> THEN <<>>
    ELSE Insert(keywords[Len(keywords)], sorted(SubSeq(keywords, 1, Len(keywords) - 1)))

\* "_".join(parts)
RECURSIVE Join(_)
Join(parts) ==
    IF parts = <<>> THEN <<>>
    ELSE IF Len(parts) = 1 THEN parts[1]
    ELSE parts[1] \o <<Underscore>> \o Join(Tail(parts))

\* kwargs.get(name, default)
KwArg(kwargs, name, default) == IF name \in DOMAIN kwargs THEN kwargs[name] ELSE default

\* get_cache_key(data_type, **kwargs)
get_cache_key(data_type, kwargs) ==
    IF data_type = "search"
    THEN LET keywords_str == Join(sorted(KwArg(kwargs, "keywords", <<>>)))
             timestamp == KwArg(kwargs, "timestamp", <<>>)
         IN  SearchPrefix \o keywords_str \o <<Underscore>> \o timestamp
    ELSE IF data_type = "paper"
    THEN PaperPrefix \o KwArg(kwargs, "paper_id", <<>>)
    ELSE None

\* main, line 157
SearchCacheKey(keywords, timestamp) ==
    get_cache_key("search", [keywords |-> keywords, timestamp |-> timestamp])

\* main, line 195
PaperCacheKey(paper_id) == get_cache_key("paper", [paper_id |-> paper_id])

(***************************************************************************)
(* Summary and post text (ai_summarizer.py, arxiv_downloader.py).          *)
(***************************************************************************)
\* f"https://arxiv.org/abs/{arxiv_id}"
ArxivUrl(arxiv_id) == AbsUrlPrefix \o arxiv_id

\* generate_summary: the summary text built from the API response
SummaryText(content, arxiv_id) == ArxivUrl(arxiv_id) \o Greeting \o Strip(content)

\* the length limit of the post text
PostLimit == 280
\* the characters counted for the line break
PostBreakAllowance == 2

\* process_paper: the post text of a summary that carries none
MutPostTextStrictLimit(summary_text, arxiv_id) ==
    IF arxiv_id # <<>>
       /\ Len(summary_text) + Len(ArxivUrl(arxiv_id)) + PostBreakAllowance < PostLimit
    THEN summary_text \o BlankLine \o ArxivUrl(arxiv_id)
    ELSE summary_text
PostText(summary_text, arxiv_id) ==
    IF arxiv_id # <<>>
       /\ Len(summary_text) + Len(ArxivUrl(arxiv_id)) + PostBreakAllowance <= PostLimit
    THEN summary_text \o BlankLine \o ArxivUrl(arxiv_id)
    ELSE summary_text


(***************************************************************************)
(* Documents, Python values and files.                                     *)
(***************************************************************************)
\* "http://arxiv.org/pdf/"
PdfUrlPrefix == <<104, 116, 116, 112, 58, 47, 47, 97, 114, 120, 105, 118, 46, 111, 114, 103, 47, 112, 100, 102, 47>>

\* the arXiv identifier of document d, "<d>.<d>v1"
ArxivIdOf(d) == <<48 + d, 46, 48 + d, 118, 49>>

\* the timezone-aware datetime (UTC) the feed gives for moment t: fields of
\* one digit and of two
Datetime(t) ==
    [year   |-> 2020 + t,
     month  |-> ((5 * t) % 12) + 1,
     day    |-> ((9 * t) % 28) + 1,
     hour   |-> (7 * t) % 24,
     minute |-> (13 * t) % 60,
     second |-> (17 * t) % 60,
     tzinfo |-> "UTC"]

\* "+00:00", the offset isoformat() writes for UTC
UtcOffset == <<43, 48, 48, 58, 48, 48>>

\* dt.isoformat() of an aware datetime without microseconds:
\* "YYYY-MM-DDTHH:MM:SS+00:00"
Isoformat(dt) ==
    Pad4(dt.year) \o <<Hyphen>> \o Pad2(dt.month) \o <<Hyphen>> \o Pad2(dt.day) \o <<84>>
    \o Pad2(dt.hour) \o <<Colon>> \o Pad2(dt.minute) \o <<Colon>> \o Pad2(dt.second)
    \o (IF dt.tzinfo = "UTC" THEN UtcOffset ELSE <<>>)

\* datetime.fromisoformat(text): the fields are read at their positions; the
\* text after the seconds is the offset
FromIsoformat(text) ==
    [year   |-> DigitsValue(SubSeq(text, 1, 4)),
     month  |-> DigitsValue(SubSeq(text, 6, 7)),
     day    |-> DigitsValue(SubSeq(text, 9, 10)),
     hour   |-> DigitsValue(SubSeq(text, 12, 13)),
     minute |-> DigitsValue(SubSeq(text, 15, 16)),
     second |-> DigitsValue(SubSeq(text, 18, 19)),
     tzinfo |-> IF SliceFrom(text, 19) = UtcOffset THEN "UTC" ELSE "naive"]

\* the arxiv.Result the Fetcher returns for document d; the pdf link of an
\* even document carries the ".pdf" suffix of the older API
Doc(d) ==
    [entry_id  |-> EntryIdPrefix \o ArxivIdOf(d),
     title     |-> d,
     summary   |-> d,
     pdf_url   |-> IF d % 2 = 0 THEN PdfUrlPrefix \o ArxivIdOf(d) \o PdfExt
                   ELSE PdfUrlPrefix \o ArxivIdOf(d),
     published |-> Datetime(d),
     updated   |-> Datetime(d),
     authors   |-> <<d>>]

\* the result lists search_arxiv can return: the documents matching the
\* query, in the order of the sort criterion
RECURSIVE SubLists(_)
SubLists(n) ==
    IF n = 0 THEN {<<>>}
    ELSE SubLists(n - 1) \cup {Append(l, Doc(n)) : l \in SubLists(n - 1)}
FetchResults == SubLists(NDocs)

\* Python values
EmptyDict == [py |-> "dict", map |-> <<>>]
PyDict(map) == [py |-> "dict", map |-> map]
PyList(items) == [py |-> "list", items |-> items]

\* a file: absent, holding JSON, or holding text json.load rejects
Absent == [st |-> "absent"]
Unparseable == [st |-> "unparseable"]
JsonFile(val) == [st |-> "json", val |-> val]

\* the outcomes of writing a file: written; open() raised and the file is as
\* before; or the write broke off and left text json.load rejects
WriteOutcomes == {"ok", "denied", "partial"}
IsFault(outcome) == outcome # "ok"
AfterWrite(old, val, outcome) ==
    IF outcome = "ok" THEN JsonFile(val)
    ELSE IF outcome = "partial" THEN Unparseable
    ELSE old

\* dict item assignment d[k] = v
DictSet(d, k, v) == PyDict((k :> v) @@ d.map)

(***************************************************************************)
(* The cache store (create_arXiv_page.py).                                 *)
(***************************************************************************)
\* load_cache: {} unless the file exists and open() and json.load succeed.
\* raised is TRUE when an exception leaves the function.
MutLoadCacheNoTry(file, readable) ==
    IF file.st = "json" /\ readable THEN [val |-> file.val, raised |-> FALSE]
    ELSE IF file.st = "absent" THEN [val |-> EmptyDict, raised |-> FALSE]
    ELSE [val |-> EmptyDict, raised |-> TRUE]
load_cache(file, readable) ==
    IF file.st = "json" /\ readable THEN [val |-> file.val, raised |-> FALSE]
    ELSE [val |-> EmptyDict, raised |-> FALSE]

\* save_cache, cache_type "search": one plain dict per arxiv.Result
MutPaperDictOneStamp(paper) ==
    [id        |-> extract_arxiv_id(paper),
     title     |-> paper.title,
     summary   |-> paper.summary,
     pdf_url   |-> paper.pdf_url,
     published |-> Isoformat(paper.published),
     updated   |-> Isoformat(paper.published)]
PaperDict(paper) ==
    [id        |-> extract_arxiv_id(paper),
     title     |-> paper.title,
     summary   |-> paper.summary,
     pdf_url   |-> paper.pdf_url,
     published |-> Isoformat(paper.published),
     updated   |-> Isoformat(paper.updated)]

\* save_cache, cache_type "search": what json.dump is given; the list of
\* dicts replaces cache_data
SerializableData(cache_data) ==
    PyList([k \in 1..Len(cache_data) |-> PaperDict(cache_data[k])])

\* save_cache: the file after the call, and whether an exception leaves it
save_cache(file, data, outcome) ==
    [file |-> AfterWrite(file, data, outcome), raised |-> FALSE]

\* main: arxiv.Result rebuilt from a cached dict
ResultFromDict(paper_dict) ==
    [entry_id  |-> EntryIdPrefix \o paper_dict.id,
     title     |-> paper_dict.title,
     summary   |-> paper_dict.summary,
     pdf_url   |-> paper_dict.pdf_url,
     published |-> FromIsoformat(paper_dict.published),
     updated   |-> FromIsoformat(paper_dict.updated),
     authors   |-> <<>>]

\* search_key in search_cache: a key of the dict, or an element of the list
\* (a list holds dicts, and a dict never equals a str)
KeyInCache(key, cache) ==
    IF cache.py = "dict" THEN key \in DOMAIN cache.map
    ELSE \E k \in 1..Len(cache.items) : FALSE

\* search_cache[search_key], rebuilt as arxiv.Result objects
CachedResults(key, cache) ==
    LET dicts == cache.map[key].items
    IN  [k \in 1..Len(dicts) |-> ResultFromDict(dicts[k])]


(***************************************************************************)
(* State.                                                                  *)
(***************************************************************************)
VARIABLES
    \* the disk, kept from run to run
    dlFiles,            \* names of the files under dl/
    textFiles,          \* names of the files under text/
    summaryFiles,       \* summary/: file name -> content
    logFiles,           \* logs/: file name -> content
    searchCacheFile,    \* cache/search_cache.json
    paperCacheFile,     \* cache/paper_cache.json
    \* the behaviour so far
    runNo,              \* runs started; also the wall clock (the day)
    faults,             \* operations hit by an environment failure so far
    \* main()
    pc,                 \* where main() is
    force,              \* args.force
    keywords,           \* args.keywords
    since_timestamp,
    search_key,
    search_cache,
    paper_cache,
    results,
    idx,                \* position of the for loop in results (from 1)
    processed_papers,
    \* process_paper() and generate_summary()
    arxiv_id,
    pdf_path,
    text_path,
    summary,
    retry_count,
    backoff_time,
    \* observation
    events,             \* what this run did, in order
    startSummaryFiles,  \* summary/ as it was when this run started
    savedKey,           \* the search key (a set of one) of the results the
                        \* search cache file holds, {} when it holds none
    savedKeyAtStart,    \* savedKey as it was when this run started
    crash,              \* the call whose exception ended the run
    rendered,           \* the summary files the last render read
    \* one call of a pure function
    fnArgs,
    fnResult

diskVars == <<dlFiles, textFiles, summaryFiles, logFiles, searchCacheFile, paperCacheFile>>
mainVars == <<pc, force, keywords, since_timestamp, search_key, search_cache,
              paper_cache, results, idx, processed_papers>>
paperVars == <<arxiv_id, pdf_path, text_path, summary, retry_count, backoff_time>>
obsVars == <<events, startSummaryFiles, savedKey, savedKeyAtStart, crash, rendered>>
fnVars == <<fnArgs, fnResult>>
vars == <<diskVars, runNo, faults, mainVars, paperVars, obsVars, fnVars>>

\* generate_summary: max_retries and the first backoff_time
max_retries == 3
BaseBackoff == 2

\* "LLM", "RAG"
KwLLM == <<76, 76, 77>>
KwRAG == <<82, 65, 71>>
\* the keyword arguments of a run
KeywordArgs == {<<KwLLM, KwRAG>>, <<KwRAG, KwLLM>>}
\* since_timestamp values, "%Y-%m-%dT%H:%M:%SZ"
Stamp1 == <<50, 48, 50, 52, 45, 48, 49, 45, 48, 49, 84, 48, 48, 58, 48, 48, 58, 48, 48, 90>>
Stamp2 == <<50, 48, 50, 52, 45, 48, 49, 45, 48, 50, 84, 48, 48, 58, 48, 48, 58, 48, 48, 90>>
SinceStamps == {Stamp1, Stamp2}
\* the text the summarization API answers with, " OK\n"
ApiContent == <<32, 79, 75, 10>>

NoCall == [op |-> "none"]

\* an observed step: what, for which position of results, with which detail
Event(ev, i, n) == [ev |-> ev, i |-> i, n |-> n]
Log(ev, i, n) == Append(events, Event(ev, i, n))
Flag(b) == IF b THEN 1 ELSE 0
OutcomeCode(outcome) ==
    CASE outcome = "ok" -> 0
      [] outcome = "denied" -> 1
      [] outcome = "partial" -> 2
      [] OTHER -> 3

\* the state of the disk of a fresh installation, no run started
DiskInit ==
    /\ dlFiles = {}
    /\ textFiles = {}
    /\ summaryFiles = <<>>
    /\ logFiles = <<>>
    /\ searchCacheFile = Absent
    /\ paperCacheFile = Absent

MainInit ==
    /\ runNo = 0
    /\ faults = 0
    /\ pc = "idle"
    /\ force = FALSE
    /\ keywords = <<>>
    /\ since_timestamp = <<>>
    /\ search_key = <<>>
    /\ search_cache = EmptyDict
    /\ paper_cache = EmptyDict
    /\ results = <<>>
    /\ idx = 0
    /\ processed_papers = <<>>
    /\ arxiv_id = <<>>
    /\ pdf_path = None
    /\ text_path = None
    /\ summary = None
    /\ retry_count = 0
    /\ backoff_time = 0
    /\ events = <<>>
    /\ startSummaryFiles = <<>>
    /\ savedKey = {}
    /\ savedKeyAtStart = {}
    /\ crash = "none"
    /\ rendered = {}

Init ==
    /\ DiskInit
    /\ MainInit
    /\ fnArgs = NoCall
    /\ fnResult = None

\* a failure may be injected while the budget lasts
MayFail(failed) == failed => faults < MaxFaults
Count(failed) == IF failed THEN faults + 1 ELSE faults

paper == results[idx]

(***************************************************************************)
(* main() of create_arXiv_page.py, up to the search results.               *)
(***************************************************************************)
ResetPaperVars ==
    /\ arxiv_id' = <<>>
    /\ pdf_path' = None
    /\ text_path' = None
    /\ summary' = None
    /\ retry_count' = 0
    /\ backoff_time' = 0

\* the content of a file of a directory, and the directory after a write
FileIn(dir, name) == IF name \in DOMAIN dir THEN dir[name] ELSE Absent
MutDirAfterWriteUnlinks(dir, name, val, outcome) ==
    LET new == AfterWrite(FileIn(dir, name), val, outcome)
    IN  IF outcome = "ok" THEN (name :> new) @@ dir
        ELSE [n \in DOMAIN dir \ {name} |-> dir[n]]
DirAfterWrite(dir, name, val, outcome) ==
    LET new == AfterWrite(FileIn(dir, name), val, outcome)
    IN  IF new = Absent THEN dir ELSE (name :> new) @@ dir

\* main, lines 123-157: a run starts with its arguments; both caches are
\* loaded and the search key is derived.  readSearch / readPaper: whether
\* open() and read succeed on an existing cache file.
StartRun(f, kw, ts, readSearch, readPaper) ==
    LET ls == load_cache(searchCacheFile, readSearch)
        lp == load_cache(paperCacheFile, readPaper)
        nFailed == Flag(~readSearch) + Flag(~readPaper)
    IN  /\ pc \in {"idle", "done", "crashed"}
        /\ runNo < MaxRuns
        /\ ~readSearch => searchCacheFile.st = "json"
        /\ ~readPaper => paperCacheFile.st = "json"
        /\ faults + nFailed <= MaxFaults
        /\ faults' = faults + nFailed
        /\ runNo' = runNo + 1
        /\ force' = f
        /\ keywords' = kw
        /\ since_timestamp' = ts
        /\ search_key' = SearchCacheKey(kw, ts)
        /\ search_cache' = ls.val
        /\ paper_cache' = lp.val
        /\ results' = <<>>
        /\ idx' = 0
        /\ processed_papers' = <<>>
        /\ ResetPaperVars
        /\ events' = <<Event("load_search_cache", 0, Flag(~readSearch)),
                       Event("load_paper_cache", 0, Flag(~readPaper))>>
        /\ startSummaryFiles' = summaryFiles
        /\ savedKeyAtStart' = savedKey
        /\ rendered' = {}
        /\ IF ls.raised \/ lp.raised
           THEN pc' = "crashed" /\ crash' = "load_cache"
           ELSE pc' = "search" /\ crash' = "none"
        /\ UNCHANGED <<diskVars, savedKey, fnVars>>

\* the branch of line 160
CacheHit == ~force /\ KeyInCache(search_key, search_cache)

\* main, lines 159-189: the results come from the loaded search cache, or
\* from search_arxiv, whose list save_cache then writes to the cache file
SearchResults(docs, outcome) ==
    /\ pc = "search"
    /\ IF CacheHit
       THEN /\ docs = <<>> /\ outcome = "ok"
            /\ results' = CachedResults(search_key, search_cache)
            /\ events' = Log("cache_hit", 0, 0)
            /\ pc' = "loop"
            /\ UNCHANGED <<searchCacheFile, faults, crash, savedKey>>
       ELSE LET sv == save_cache(searchCacheFile, SerializableData(docs), outcome)
            IN  /\ MayFail(IsFault(outcome))
                /\ faults' = Count(IsFault(outcome))
                /\ results' = docs
                /\ searchCacheFile' = sv.file
                /\ savedKey' = IF outcome = "ok" THEN {search_key}
                               ELSE IF outcome = "partial" THEN {}
                               ELSE savedKey
                /\ events' = events \o <<Event("search_arxiv", 0, 0),
                                         Event("save_search_cache", 0, OutcomeCode(outcome))>>
                /\ IF sv.raised
                   THEN pc' = "crashed" /\ crash' = "save_cache"
                   ELSE pc' = "loop" /\ UNCHANGED crash
    /\ idx' = 1
    /\ UNCHANGED <<dlFiles, textFiles, summaryFiles, logFiles, paperCacheFile, runNo,
                   force, keywords, since_timestamp, search_key, search_cache,
                   paper_cache, processed_papers, paperVars, startSummaryFiles,
                   savedKeyAtStart, rendered, fnVars>>

\* main, line 183: search_arxiv raises (the network, the arXiv API); nothing
\* in main catches it
SearchRaises ==
    /\ pc = "search"
    /\ ~CacheHit
    /\ MayFail(TRUE)
    /\ faults' = Count(TRUE)
    /\ events' = Log("search_arxiv", 0, 1)
    /\ pc' = "crashed"
    /\ crash' = "search_arxiv"
    /\ UNCHANGED <<diskVars, runNo, force, keywords, since_timestamp, search_key,
                   search_cache, paper_cache, results, idx, processed_papers,
                   paperVars, startSummaryFiles, savedKey, savedKeyAtStart,
                   rendered, fnVars>>

(***************************************************************************)
(* main(), the loop over the results (lines 191-222).                      *)
(***************************************************************************)
\* line 194 and 198: the id and the summary file the skip check looks for
MutPaperIdOfFirst == extract_arxiv_id(results[1])
paper_id == extract_arxiv_id(paper)
summary_file == SummaryFileName(paper_id)

\* os.path.exists(summary_file)
RecordExists == summary_file \in DOMAIN summaryFiles

\* line 199: os.path.exists(summary_file) and not args.force
MutSkipIgnoresForce == RecordExists
MutSkipNeedsPaperCache ==
    RecordExists /\ ~force /\ KeyInCache(PaperCacheKey(paper_id), paper_cache)
MutSkipOnlyWhenForced == RecordExists /\ force
SkipCondition == RecordExists /\ ~force

loopFrame == <<diskVars, runNo, faults, force, keywords, since_timestamp, search_key,
               search_cache, paper_cache, results, processed_papers,
               startSummaryFiles, savedKey, savedKeyAtStart, crash, rendered, fnVars>>

\* lines 193-201: the next paper is reached; its record exists and the run
\* is not forced: continue
SkipPaper ==
    /\ pc = "loop"
    /\ idx <= Len(results)
    /\ SkipCondition
    /\ events' = events \o <<Event("reached", idx, Flag(RecordExists)),
                             Event("skip", idx, 0)>>
    /\ idx' = idx + 1
    /\ UNCHANGED <<pc, paperVars, loopFrame>>

\* lines 193-205: the next paper is reached and process_paper is called
BeginPaper ==
    /\ pc = "loop"
    /\ idx <= Len(results)
    /\ ~SkipCondition
    /\ events' = events \o <<Event("reached", idx, Flag(RecordExists)),
                             Event("process_paper", idx, 0)>>
    /\ pc' = "download"
    /\ UNCHANGED <<idx, paperVars, loopFrame>>

\* process_paper has returned: main goes on with the next paper
NextIteration ==
    /\ pc' = "loop"
    /\ idx' = idx + 1
    /\ ResetPaperVars

\* lines 224-226: the loop is over
EndLoop ==
    /\ pc = "loop"
    /\ idx > Len(results)
    /\ pc' = "render"
    /\ UNCHANGED <<idx, events, paperVars, loopFrame>>

(***************************************************************************)
(* process_paper (arxiv_downloader.py) and generate_summary                *)
(* (ai_summarizer.py).                                                     *)
(***************************************************************************)
paperFrame == <<runNo, force, keywords, since_timestamp, search_key, search_cache,
                results, startSummaryFiles, savedKey, savedKeyAtStart, rendered, fnVars>>

\* download_pdf as process_paper calls it: force_download keeps its default
force_download == FALSE

\* download_pdf, lines 141-185.  An existing file is taken as it is; else
\* the request and the write succeed ("ok"), fail before the file exists
\* ("denied"), or fail with the file left behind ("partial").
DownloadPdf(outcome) ==
    LET name == DownloadFileName(paper)
        exists == name \in dlFiles /\ ~force_download
    IN  /\ pc = "download"
        /\ arxiv_id' = IF exists \/ outcome = "ok" THEN DownloadArxivId(paper) ELSE <<>>
        /\ IF exists
           THEN /\ outcome = "ok"
                /\ events' = Log("download_pdf", idx, 0)
                /\ pdf_path' = name
                /\ pc' = "extract"
                /\ UNCHANGED <<dlFiles, faults, idx, text_path, summary,
                               retry_count, backoff_time>>
           ELSE /\ MayFail(IsFault(outcome))
                /\ faults' = Count(IsFault(outcome))
                /\ dlFiles' = IF outcome = "denied" THEN dlFiles ELSE dlFiles \cup {name}
                /\ IF outcome = "ok"
                   THEN /\ events' = events \o <<Event("download_pdf", idx, 0),
                                                 Event("http_get", idx, 0)>>
                        /\ pdf_path' = name
                        /\ pc' = "extract"
                        /\ UNCHANGED <<idx, text_path, summary, retry_count, backoff_time>>
                   ELSE /\ events' = events \o <<Event("download_pdf", idx, 0),
                                                 Event("http_get", idx, OutcomeCode(outcome)),
                                                 Event("return_false", idx, 1)>>
                        /\ pc' = "loop"
                        /\ idx' = idx + 1
                        /\ pdf_path' = None
                        /\ text_path' = None
                        /\ summary' = None
                        /\ retry_count' = 0
                        /\ backoff_time' = 0
        /\ UNCHANGED <<textFiles, summaryFiles, logFiles, searchCacheFile,
                       paperCacheFile, paper_cache, processed_papers, crash, paperFrame>>

\* extract_text_from_pdf, called at line 215: the text file is written, or
\* an exception is caught and None returned
ExtractText(ok) ==
    /\ pc = "extract"
    /\ MayFail(~ok)
    /\ faults' = Count(~ok)
    /\ IF ok
       THEN /\ events' = Log("extract_text_from_pdf", idx, 0)
            /\ textFiles' = textFiles \cup {TextFileName(pdf_path)}
            /\ text_path' = TextFileName(pdf_path)
            /\ pc' = "read"
            /\ UNCHANGED <<idx, arxiv_id, pdf_path, summary, retry_count, backoff_time>>
       ELSE /\ events' = events \o <<Event("extract_text_from_pdf", idx, 1),
                                     Event("return_false", idx, 2)>>
            /\ NextIteration
            /\ UNCHANGED textFiles
    /\ UNCHANGED <<dlFiles, summaryFiles, logFiles, searchCacheFile, paperCacheFile,
                   paper_cache, processed_papers, crash, paperFrame>>

\* lines 223-224: the text file is read outside any try; an exception of
\* open() or read() leaves process_paper and main
ReadText(ok) ==
    /\ pc = "read"
    /\ MayFail(~ok)
    /\ faults' = Count(~ok)
    /\ events' = Log("read_text", idx, Flag(~ok))
    /\ IF ok
       THEN pc' = "summarize" /\ UNCHANGED crash
       ELSE pc' = "crashed" /\ crash' = "read_text"
    /\ UNCHANGED <<diskVars, idx, paper_cache, processed_papers, paperVars, paperFrame>>

\* generate_summary, lines 27-39: the text is truncated and the prompt
\* formatted; an exception of format() is caught by the outer try and None
\* returned
GenerateSummaryEnter(ok) ==
    /\ pc = "summarize"
    /\ MayFail(~ok)
    /\ faults' = Count(~ok)
    /\ IF ok
       THEN /\ events' = Log("generate_summary", idx, 0)
            /\ retry_count' = 0
            /\ backoff_time' = BaseBackoff
            /\ pc' = "api"
            /\ UNCHANGED <<idx, arxiv_id, pdf_path, text_path, summary>>
       ELSE /\ events' = events \o <<Event("generate_summary", idx, 1),
                                     Event("return_none", idx, 0),
                                     Event("return_false", idx, 3)>>
            /\ NextIteration
    /\ UNCHANGED <<diskVars, paper_cache, processed_papers, crash, paperFrame>>

\* generate_summary: the dict it saves and returns
SummaryResult(content) ==
    [title     |-> paper.title,
     arxiv_id  |-> arxiv_id,
     timestamp |-> runNo,
     summary   |-> SummaryText(content, arxiv_id)]

\* line 41: while retry_count < max_retries
RetryLoopGuard == retry_count < max_retries

\* line 96, after retry_count += 1: a failed attempt is followed by another
MutRetryOneMore == retry_count + 1 <= max_retries
RetryAgain == retry_count + 1 < max_retries

\* line 98: backoff_time *= 2
MutNextBackoffConstant == backoff_time
NextBackoff == backoff_time * 2

\* the failures of one generate_summary call count as one environment
\* failure (the API is down for that call): the first is charged
FirstFailure(outcome) == IsFault(outcome) /\ retry_count = 0

\* generate_summary, lines 41-101: one pass of the retry loop.  The attempt
\* succeeds ("ok": the API answers and the result is saved), the API call
\* raises ("api_error"), or the call returns and saving raises before the
\* file is touched ("denied") or after ("partial").
ApiAttempt(outcome) ==
    LET result == SummaryResult(ApiContent)
        name == SummarizerFileName(arxiv_id)
        call == Event("api_call", idx, retry_count + 1)
    IN  /\ pc = "api"
        /\ RetryLoopGuard
        /\ MayFail(FirstFailure(outcome))
        /\ faults' = Count(FirstFailure(outcome))
        /\ retry_count' = retry_count + 1
        /\ summaryFiles' = IF outcome = "api_error" THEN summaryFiles
                           ELSE DirAfterWrite(summaryFiles, name, result, outcome)
        /\ IF outcome = "ok"
           THEN /\ events' = events \o <<call, Event("attempt_ok", idx, retry_count + 1)>>
                /\ summary' = result
                /\ pc' = "assemble"
                /\ UNCHANGED <<idx, arxiv_id, pdf_path, text_path, backoff_time>>
           ELSE IF RetryAgain
           THEN /\ events' = events \o <<call,
                                         Event("attempt_failed", idx, OutcomeCode(outcome)),
                                         Event("sleep", idx, backoff_time)>>
                /\ backoff_time' = NextBackoff
                /\ UNCHANGED <<pc, idx, arxiv_id, pdf_path, text_path, summary>>
           ELSE /\ events' = events \o <<call,
                                         Event("attempt_failed", idx, OutcomeCode(outcome)),
                                         Event("return_none", idx, retry_count + 1),
                                         Event("return_false", idx, 3)>>
                /\ pc' = "loop"
                /\ idx' = idx + 1
                /\ arxiv_id' = <<>>
                /\ pdf_path' = None
                /\ text_path' = None
                /\ summary' = None
                /\ backoff_time' = 0
        /\ UNCHANGED <<dlFiles, textFiles, logFiles, searchCacheFile, paperCacheFile,
                       paper_cache, processed_papers, crash, paperFrame>>

\* process_paper, lines 244-268: the record that is persisted
SummaryData ==
    LET post_text == IF "post_text" \in DOMAIN summary THEN summary.post_text
                     ELSE PostText(summary.summary, arxiv_id)
    IN  [title     |-> paper.title,
         timestamp |-> runNo,
         summary   |-> summary.summary,
         post_text |-> post_text,
         arxiv_id  |-> arxiv_id]

\* process_paper, lines 244-271: the record is assembled and written to
\* summary/; an exception of the write leaves process_paper and main
WriteSummary(outcome) ==
    /\ pc = "assemble"
    /\ MayFail(IsFault(outcome))
    /\ faults' = Count(IsFault(outcome))
    /\ events' = Log("write_summary", idx, OutcomeCode(outcome))
    /\ summaryFiles' = DirAfterWrite(summaryFiles, SummaryFileName(arxiv_id),
                                     SummaryData, outcome)
    /\ IF outcome = "ok"
       THEN pc' = "log" /\ UNCHANGED crash
       ELSE pc' = "crashed" /\ crash' = "write_summary"
    /\ UNCHANGED <<dlFiles, textFiles, logFiles, searchCacheFile, paperCacheFile, idx,
                   paper_cache, processed_papers, paperVars, paperFrame>>

\* process_paper, lines 273-278: the log copy is written and True returned
WriteLog(outcome) ==
    /\ pc = "log"
    /\ MayFail(IsFault(outcome))
    /\ faults' = Count(IsFault(outcome))
    /\ logFiles' = DirAfterWrite(logFiles, LogFileName(arxiv_id), SummaryData, outcome)
    /\ IF outcome = "ok"
       THEN /\ events' = events \o <<Event("write_log", idx, 0),
                                     Event("return_true", idx, 0)>>
            /\ pc' = "cache"
            /\ UNCHANGED crash
       ELSE /\ events' = Log("write_log", idx, OutcomeCode(outcome))
            /\ pc' = "crashed"
            /\ crash' = "write_log"
    /\ UNCHANGED <<dlFiles, textFiles, summaryFiles, searchCacheFile, paperCacheFile,
                   idx, paper_cache, processed_papers, paperVars, paperFrame>>

\* main, lines 213-222: process_paper returned True
UpdatePaperCache(outcome) ==
    LET paper_key == PaperCacheKey(paper_id)
        paper_data == [id |-> paper_id, title |-> paper.title,
                       summary |-> paper.summary, url |-> paper.pdf_url]
        cache == DictSet(paper_cache, paper_key, paper_data)
        sv == save_cache(paperCacheFile, cache, outcome)
    IN  /\ pc = "cache"
        /\ MayFail(IsFault(outcome))
        /\ faults' = Count(IsFault(outcome))
        /\ paper_cache' = cache
        /\ processed_papers' = Append(processed_papers, paper_data)
        /\ paperCacheFile' = sv.file
        /\ events' = events \o <<Event("paper_cache", idx, 0),
                                 Event("save_paper_cache", idx, OutcomeCode(outcome))>>
        /\ IF sv.raised
           THEN pc' = "crashed" /\ crash' = "save_cache" /\ UNCHANGED <<idx, paperVars>>
           ELSE NextIteration /\ UNCHANGED crash
        /\ UNCHANGED <<dlFiles, textFiles, summaryFiles, logFiles, searchCacheFile,
                       paperFrame>>

(***************************************************************************)
(* Rendering (web_generator.py), as main calls it.                         *)
(***************************************************************************)
\* classify_logs_by_date: glob('*_summary.json') over the summary directory
MutRenderReadsThisRun ==
    {SummaryFileName(processed_papers[k].id) : k \in 1..Len(processed_papers)}
SummaryFilesRead == {name \in DOMAIN summaryFiles : EndsWith(name, SummarySuffix)}

\* main, lines 224-228: generate_webpage(dirs['summary'], args.output_dir);
\* an exception of its file writes ends the run
Render(ok) ==
    /\ pc = "render"
    /\ MayFail(~ok)
    /\ faults' = Count(~ok)
    /\ events' = Log("generate_webpage", 0, Flag(~ok))
    /\ rendered' = SummaryFilesRead
    /\ IF ok
       THEN pc' = "done" /\ UNCHANGED crash
       ELSE pc' = "crashed" /\ crash' = "generate_webpage"
    /\ UNCHANGED <<diskVars, runNo, force, keywords, since_timestamp, search_key,
                   search_cache, paper_cache, results, idx, processed_papers,
                   paperVars, startSummaryFiles, savedKey, savedKeyAtStart, fnVars>>

Next ==
    \/ \E f \in BOOLEAN, kw \in KeywordArgs, ts \in SinceStamps,
          readSearch \in BOOLEAN, readPaper \in BOOLEAN :
            StartRun(f, kw, ts, readSearch, readPaper)
    \/ \E docs \in FetchResults, outcome \in WriteOutcomes : SearchResults(docs, outcome)
    \/ SearchRaises
    \/ SkipPaper
    \/ BeginPaper
    \/ EndLoop
    \/ \E outcome \in WriteOutcomes : DownloadPdf(outcome)
    \/ \E ok \in BOOLEAN : ExtractText(ok)
    \/ \E ok \in BOOLEAN : ReadText(ok)
    \/ \E ok \in BOOLEAN : GenerateSummaryEnter(ok)
    \/ \E outcome \in WriteOutcomes \cup {"api_error"} : ApiAttempt(outcome)
    \/ \E outcome \in WriteOutcomes : WriteSummary(outcome)
    \/ \E outcome \in WriteOutcomes : WriteLog(outcome)
    \/ \E outcome \in WriteOutcomes : UpdatePaperCache(outcome)
    \/ \E ok \in BOOLEAN : Render(ok)

Spec == Init /\ [][Next]_vars

(***************************************************************************)
(* Single calls of the pure functions: the arguments are drawn by the      *)
(* initial state and one step applies the function.                        *)
(***************************************************************************)
\* truncate_text: how far the text lengths go past max_length, and the
\* largest of the small max_length values
MaxExcess == 4
MaxSmallLength == 8

\* a text of n characters, each the number of its position
TextOfLength(n) == [k \in 1..n |-> k]

TruncateCalls ==
    {[op |-> "truncate_text", text |-> TextOfLength(n), max_length |-> m] :
        m \in 2..MaxSmallLength, n \in 0..(MaxSmallLength + MaxExcess)}
    \cup
    {[op |-> "truncate_text", text |-> TextOfLength(n), max_length |-> DefaultMaxLength] :
        n \in (DefaultMaxLength - MaxExcess)..(DefaultMaxLength + MaxExcess)}

InitTruncate ==
    /\ DiskInit
    /\ MainInit
    /\ fnArgs \in TruncateCalls
    /\ fnResult = None

ApplyTruncate ==
    /\ fnArgs.op = "truncate_text"
    /\ fnResult = None
    /\ fnResult' = [val |-> truncate_text(fnArgs.text, fnArgs.max_length)]
    /\ UNCHANGED <<diskVars, runNo, faults, mainVars, paperVars, obsVars, fnArgs>>

SpecTruncate == InitTruncate /\ [][ApplyTruncate]_vars

\* get_cache_key: the keywords and the number of keywords of a call
KwJoined == <<76, 76, 77, 95, 82, 65, 71>>
KeywordUniverse == {KwLLM, KwRAG, KwJoined}
MaxKeywords == 2

RECURSIVE ListsUpTo(_, _)
ListsUpTo(S, n) ==
    IF n = 0 THEN {<<>>}
    ELSE ListsUpTo(S, n - 1)
         \cup {Append(l, x) : l \in {m \in ListsUpTo(S, n - 1) : Len(m) = n - 1}, x \in S}

\* nargs='+': at least one keyword
KeywordLists == {l \in ListsUpTo(KeywordUniverse, MaxKeywords) : Len(l) >= 1}

CacheKeyCalls ==
    {[op |-> "get_cache_key", keywords |-> a, timestamp |-> ta,
      other_keywords |-> b, other_timestamp |-> tb] :
        a \in KeywordLists, b \in KeywordLists, ta \in SinceStamps, tb \in SinceStamps}

InitCacheKey ==
    /\ DiskInit
    /\ MainInit
    /\ fnArgs \in CacheKeyCalls
    /\ fnResult = None

ApplyCacheKey ==
    /\ fnArgs.op = "get_cache_key"
    /\ fnResult = None
    /\ fnResult' = [val   |-> SearchCacheKey(fnArgs.keywords, fnArgs.timestamp),
                    other |-> SearchCacheKey(fnArgs.other_keywords, fnArgs.other_timestamp)]
    /\ UNCHANGED <<diskVars, runNo, faults, mainVars, paperVars, obsVars, fnArgs>>

SpecCacheKey == InitCacheKey /\ [][ApplyCacheKey]_vars

\* the post text: the length of the API answer, the padding around it, and
\* the identifiers ("1.1v1", "2401.12345v1")
MaxContentLength == 215
LongArxivId == <<50, 52, 48, 49, 46, 49, 50, 51, 52, 53, 118, 49>>
PostTextIds == {ArxivIdOf(1), LongArxivId}
ContentOfLength(n, padded) ==
    IF padded THEN <<32>> \o [k \in 1..n |-> 120] \o <<10>> ELSE [k \in 1..n |-> 120]

PostTextCalls ==
    {[op |-> "post_text", content |-> ContentOfLength(n, padded), arxiv_id |-> id] :
        n \in 0..MaxContentLength, padded \in BOOLEAN, id \in PostTextIds}

InitPostText ==
    /\ DiskInit
    /\ MainInit
    /\ fnArgs \in PostTextCalls
    /\ fnResult = None

ApplyPostText ==
    /\ fnArgs.op = "post_text"
    /\ fnResult = None
    /\ LET text == SummaryText(fnArgs.content, fnArgs.arxiv_id)
       IN  fnResult' = [summary |-> text, post_text |-> PostText(text, fnArgs.arxiv_id)]
    /\ UNCHANGED <<diskVars, runNo, faults, mainVars, paperVars, obsVars, fnArgs>>

SpecPostText == InitPostText /\ [][ApplyPostText]_vars

(***************************************************************************)
(* The renderer (web_generator.py): records are bucketed by date and the   *)
(* pages written.  A page is modelled by the data its template is filled   *)
(* with.                                                                   *)
(***************************************************************************)
\* ".html", "index.html", "css/custom.css", "js/custom.js"
HtmlExt == <<46, 104, 116, 109, 108>>
IndexName == <<105, 110, 100, 101, 120>> \o HtmlExt
CssName == <<99, 115, 115, 47, 99, 117, 115, 116, 111, 109, 46, 99, 115, 115>>
JsName == <<106, 115, 47, 99, 117, 115, 116, 111, 109, 46, 106, 115>>
\* "Unknown", "要約情報がありません。"
UnknownTitle == <<85, 110, 107, 110, 111, 119, 110>>
NoSummaryText == <<35201, 32004, 24773, 22577, 12364, 12354, 12426, 12414, 12379, 12435, 12290>>

\* d.get(key, default) on a JSON object
DictGet(d, key, default) == IF key \in DOMAIN d THEN d[key] ELSE default

\* json.load gave an object (a dict), not a list
IsJsonObject(val) == ~("py" \in DOMAIN val)

\* the days of a month of the Gregorian calendar
DaysInMonth(year, month) ==
    IF month \in {4, 6, 9, 11} THEN 30
    ELSE IF month # 2 THEN 31
    ELSE IF year % 4 = 0 /\ (year % 100 # 0 \/ year % 400 = 0) THEN 29
    ELSE 28

\* datetime.strptime(timestamp, "%Y-%m-%d %H:%M:%S"): the fields, or ok = FALSE
\* for ValueError.  %Y takes four digits, the other fields one or two; the
\* space of the format matches a run of whitespace; nothing may precede or
\* follow.
Strptime(timestamp) ==
    LET tokens == SplitWhitespace(timestamp)
        whole  == /\ Len(tokens) = 2
                  /\ ~IsSpace(timestamp[1])
                  /\ ~IsSpace(timestamp[Len(timestamp)])
        dateF  == IF whole THEN Split(tokens[1], Hyphen) ELSE <<>>
        timeF  == IF whole THEN Split(tokens[2], Colon) ELSE <<>>
        shape  == /\ whole
                  /\ Len(dateF) = 3 /\ Len(timeF) = 3
                  /\ Len(dateF[1]) = 4
                  /\ \A k \in 2..3 : Len(dateF[k]) \in 1..2
                  /\ \A k \in 1..3 : Len(timeF[k]) \in 1..2
                  /\ \A k \in 1..3 : AllDigits(dateF[k]) /\ AllDigits(timeF[k])
    IN  IF ~shape THEN [ok |-> FALSE]
        ELSE LET dt == [ok |-> TRUE,
                        year   |-> DigitsValue(dateF[1]),
                        month  |-> DigitsValue(dateF[2]),
                        day    |-> DigitsValue(dateF[3]),
                        hour   |-> DigitsValue(timeF[1]),
                        minute |-> DigitsValue(timeF[2]),
                        second |-> DigitsValue(timeF[3])]
             IN  IF /\ dt.year >= 1
                    /\ dt.month \in 1..12
                    /\ dt.day >= 1 /\ dt.day <= DaysInMonth(dt.year, dt.month)
                    /\ dt.hour <= 23 /\ dt.minute <= 59 /\ dt.second <= 61
                 THEN dt ELSE [ok |-> FALSE]

\* dt.strftime("%Y年%m月%d日 %H:%M")
FormattedDate(dt) ==
    Pad4(dt.year) \o <<24180>> \o Pad2(dt.month) \o <<26376>> \o Pad2(dt.day)
    \o <<26085, 32>> \o Pad2(dt.hour) \o <<Colon>> \o Pad2(dt.minute)

\* classify_logs_by_date, lines 66-73.  get('arxiv_id') is None for a record
\* without it; the card only tests its truth, where None and "" are alike,
\* so the empty string stands for both.
PaperInfo(summary_data, timestamp) ==
    [title          |-> DictGet(summary_data, "title", UnknownTitle),
     timestamp      |-> timestamp,
     formatted_date |-> FormattedDate(Strptime(timestamp)),
     arxiv_id       |-> DictGet(summary_data, "arxiv_id", <<>>),
     summary        |-> DictGet(summary_data, "summary", NoSummaryText),
     keywords       |-> DictGet(summary_data, "keywords", <<>>)]

\* date_logs[date].append(paper_info) on the defaultdict(list)
BucketAppend(date_logs, date, paper_info) ==
    IF date \in DOMAIN date_logs
    THEN [date_logs EXCEPT ![date] = Append(@, paper_info)]
    ELSE (date :> <<paper_info>>) @@ date_logs

\* classify_logs_by_date, lines 35-76: one pass of the loop.  The exceptions
\* of open, json.load, get, split, the index [0] and strptime are caught and
\* the file contributes nothing; filter_keywords is None in main's call.
MutClassifyFileTouchesBucket(date_logs, file) ==
    IF file.st # "json" THEN date_logs
    ELSE IF ~IsJsonObject(file.val) THEN date_logs
    ELSE IF "timestamp" \notin DOMAIN file.val THEN date_logs
    ELSE IF SplitWhitespace(file.val.timestamp) = <<>> THEN date_logs
    ELSE LET date == SplitWhitespace(file.val.timestamp)[1]
         IN  IF ~Strptime(file.val.timestamp).ok
             THEN (IF date \in DOMAIN date_logs THEN date_logs
                   ELSE (date :> <<>>) @@ date_logs)
             ELSE BucketAppend(date_logs, date, PaperInfo(file.val, file.val.timestamp))
ClassifyFile(date_logs, file) ==
    IF file.st # "json" THEN date_logs
    ELSE IF ~IsJsonObject(file.val) THEN date_logs
    ELSE IF "timestamp" \notin DOMAIN file.val THEN date_logs
    ELSE IF SplitWhitespace(file.val.timestamp) = <<>> THEN date_logs
    ELSE IF ~Strptime(file.val.timestamp).ok THEN date_logs
    ELSE BucketAppend(date_logs, SplitWhitespace(file.val.timestamp)[1],
                      PaperInfo(file.val, file.val.timestamp))

\* classify_logs_by_date over the files glob returned, in its order
RECURSIVE classify_logs_by_date(_)
classify_logs_by_date(summary_files) ==
    IF summary_files = <<>> THEN <<>>
    ELSE ClassifyFile(classify_logs_by_date(SubSeq(summary_files, 1, Len(summary_files) - 1)),
                      summary_files[Len(summary_files)])

\* sorted(keys, reverse=True) for a set of distinct strings
RECURSIVE SortedReverse(_)
SortedReverse(S) ==
    IF S = {} THEN <<>>
    ELSE LET top == CHOOSE x \in S : \A y \in S : StrLeq(y, x)
         IN  <<top>> \o SortedReverse(S \ {top})

\* sum(len(date_logs[d]) for d in dates)
RECURSIVE PapersCount(_, _)
PapersCount(date_logs, dates) ==
    IF dates = {} THEN 0
    ELSE LET d == CHOOSE x \in dates : TRUE
         IN  Len(date_logs[d]) + PapersCount(date_logs, dates \ {d})

\* f"{year}-{month}" and the keys of date_logs that start with it
YearMonth(year, month) == year \o <<Hyphen>> \o month
MutMonthDatesWholeYear(date_logs, year, month) ==
    {d \in DOMAIN date_logs : StartsWith(d, year)}
MonthDates(date_logs, year, month) ==
    {d \in DOMAIN date_logs : StartsWith(d, YearMonth(year, month))}

\* the keys of date_logs that start with f"{year}-"
YearDates(date_logs, year) == {d \in DOMAIN date_logs : StartsWith(d, year \o <<Hyphen>>)}

\* the months of a year: set([d.split('-')[1] for d in ... startswith(f"{year}-")])
YearMonths(date_logs, year) == {Split(d, Hyphen)[2] : d \in YearDates(date_logs, year)}

\* open(path, 'w') and write: the file holds what this call wrote.  A file
\* is the sequence of the texts appended since it was last truncated.
MutWriteFileAppends(out, name, content) ==
    (name :> ((IF name \in DOMAIN out THEN out[name] ELSE <<>>) \o <<content>>)) @@ out
WriteFile(out, name, content) == (name :> <<content>>) @@ out

\* generate_paper_cards: what the card of each paper shows
generate_paper_cards(papers) ==
    [k \in 1..Len(papers) |->
        [title          |-> papers[k].title,
         formatted_date |-> papers[k].formatted_date,
         summary        |-> papers[k].summary,
         arxiv_url      |-> IF papers[k].arxiv_id # <<>> THEN ArxivUrl(papers[k].arxiv_id)
                            ELSE <<>>]]

\* generate_daily_page: the page f"{date}.html"
generate_daily_page(out, date, papers, now) ==
    LET ymd == Split(date, Hyphen)
    IN  WriteFile(out, date \o HtmlExt,
                  [page    |-> "daily",
                   title   |-> ymd,
                   nav     |-> <<ymd[1] \o HtmlExt, YearMonth(ymd[1], ymd[2]) \o HtmlExt>>,
                   cards   |-> generate_paper_cards(papers),
                   updated |-> now])

\* generate_monthly_index: the page f"{year}-{month}.html" with one link and
\* count per date of the month, latest first
generate_monthly_index(out, year, month, date_logs, now) ==
    LET dates == SortedReverse(MonthDates(date_logs, year, month))
        date_links == [k \in 1..Len(dates) |->
                          [href  |-> dates[k] \o HtmlExt,
                           label |-> Split(dates[k], Hyphen),
                           count |-> Len(date_logs[dates[k]])]]
    IN  WriteFile(out, YearMonth(year, month) \o HtmlExt,
                  [page    |-> "monthly",
                   title   |-> <<year, month>>,
                   nav     |-> <<year \o HtmlExt>>,
                   links   |-> date_links,
                   updated |-> now])

\* the link of a month with the count of its papers
MonthLink(date_logs, year, month) ==
    [href  |-> YearMonth(year, month) \o HtmlExt,
     label |-> <<year, month>>,
     count |-> PapersCount(date_logs, MonthDates(date_logs, year, month))]

\* generate_yearly_index: the page f"{year}.html" with one link and count per
\* month of the year, latest first
generate_yearly_index(out, year, date_logs, now) ==
    LET months == SortedReverse(YearMonths(date_logs, year))
    IN  WriteFile(out, year \o HtmlExt,
                  [page    |-> "yearly",
                   title   |-> <<year>>,
                   links   |-> [k \in 1..Len(months) |-> MonthLink(date_logs, year, months[k])],
                   updated |-> now])

\* generate_main_index: the dates and the papers it shows at most
LatestDates == 5
LatestPapers == 10

\* sorted(papers, key=timestamp, reverse=True): descending, and stable (equal
\* timestamps keep their order)
RECURSIVE InsertByTimestamp(_, _)
InsertByTimestamp(x, l) ==
    IF l = <<>> THEN <<x>>
    ELSE IF StrLeq(x.timestamp, Head(l).timestamp)
    THEN <<Head(l)>> \o InsertByTimestamp(x, Tail(l))
    ELSE <<x>> \o l
MutSortedByTimestampKeepsOrder(papers) == papers
RECURSIVE SortedByTimestamp(_)
SortedByTimestamp(papers) ==
    IF papers = <<>> THEN <<>>
    ELSE InsertByTimestamp(papers[Len(papers)],
                           SortedByTimestamp(SubSeq(papers, 1, Len(papers) - 1)))

\* latest_papers.extend(date_logs[date]) for the dates in order
RECURSIVE PapersOf(_, _)
PapersOf(date_logs, dates) ==
    IF dates = <<>> THEN <<>>
    ELSE date_logs[Head(dates)] \o PapersOf(date_logs, Tail(dates))

\* generate_main_index: index.html with the latest papers and the archive
\* (each year with its count; the months of the latest year)
generate_main_index(out, date_logs, now) ==
    LET latest_dates == Slice(SortedReverse(DOMAIN date_logs), 0, LatestDates)
        years == SortedReverse({Split(d, Hyphen)[1] : d \in DOMAIN date_logs})
        latest_papers == Slice(SortedByTimestamp(PapersOf(date_logs, latest_dates)),
                               0, LatestPapers)
        YearEntry(k) ==
            LET months == SortedReverse(YearMonths(date_logs, years[k]))
            IN  [href   |-> years[k] \o HtmlExt,
                 label  |-> <<years[k]>>,
                 count  |-> PapersCount(date_logs, YearDates(date_logs, years[k])),
                 months |-> IF years[k] = years[1]
                            THEN [j \in 1..Len(months) |->
                                     MonthLink(date_logs, years[k], months[j])]
                            ELSE <<>>]
    IN  WriteFile(out, IndexName,
                  [page    |-> "index",
                   cards   |-> generate_paper_cards(latest_papers),
                   archive |-> [k \in 1..Len(years) |-> YearEntry(k)],
                   updated |-> now])

\* generate_webpage, lines 219-230: the pages of each date, latest first
RECURSIVE RenderDates(_, _, _, _)
RenderDates(out, dates, date_logs, now) ==
    IF dates = <<>> THEN out
    ELSE LET date  == Head(dates)
             year  == Split(date, Hyphen)[1]
             month == Split(date, Hyphen)[2]
             daily   == generate_daily_page(out, date, date_logs[date], now)
             monthly == generate_monthly_index(daily, year, month, date_logs, now)
             yearly  == generate_yearly_index(monthly, year, date_logs, now)
         IN  RenderDates(yearly, Tail(dates), date_logs, now)

\* generate_webpage(summary_dir, output_dir) as main calls it: out is the
\* output directory before, the result the output directory after; now is
\* datetime.now() of the call
generate_webpage(summary_files, out, now) ==
    LET assets == WriteFile(WriteFile(out, CssName, [page |-> "css"]),
                            JsName, [page |-> "js"])
        date_logs == classify_logs_by_date(summary_files)
        dates == SortedReverse(DOMAIN date_logs)
    IN  generate_main_index(RenderDates(assets, dates, date_logs, now), date_logs, now)

\* Single calls of the renderer: the summary directory holds up to MaxFiles
\* files, listed by glob in the order of the sequence; generate_webpage runs
\* on an empty output directory and then once more on its own output.
MaxFiles == 3

\* time.strftime("%Y-%m-%d %H:%M:%S") at hour o'clock of a day
Stamp(year, month, day, hour) ==
    Pad4(year) \o <<Hyphen>> \o Pad2(month) \o <<Hyphen>> \o Pad2(day)
    \o <<Space>> \o Pad2(hour) \o <<Colon, 48, 48, Colon, 48, 48>>

\* the record file of paper n, generated at timestamp
RecordFile(n, timestamp) ==
    JsonFile([title     |-> <<84, 48 + n>>,
              timestamp |-> timestamp,
              summary   |-> SummaryText(<<79, 75>>, ArxivIdOf(n)),
              post_text |-> PostText(SummaryText(<<79, 75>>, ArxivIdOf(n)), ArxivIdOf(n)),
              arxiv_id  |-> ArxivIdOf(n)])

\* "2024-1-05 10:00:00": strptime takes a month of one digit
UnpaddedStamp == <<50, 48, 50, 52, 45, 49, 45, 48, 53, 32, 49, 48, 58, 48, 48, 58, 48, 48>>
\* "2024-03-05": no time of day
DateOnlyStamp == <<50, 48, 50, 52, 45, 48, 51, 45, 48, 53>>

\* records the pipeline wrote (zero-padded timestamps)
WrittenFiles ==
    {RecordFile(1, Stamp(2024, 3, 5, 10)),
     RecordFile(2, Stamp(2024, 3, 6, 9)),
     RecordFile(3, Stamp(2024, 4, 1, 10)),
     RecordFile(4, Stamp(2024, 10, 5, 10)),
     RecordFile(5, Stamp(2025, 3, 5, 10))}

\* other files named *_summary.json: a timestamp strptime takes although it
\* is not zero-padded, one it rejects, a record without timestamp, a JSON
\* list, text json.load rejects
ForeignFiles ==
    {RecordFile(6, UnpaddedStamp),
     RecordFile(7, DateOnlyStamp),
     JsonFile([title |-> <<84, 56>>, summary |-> <<79, 75>>]),
     JsonFile(PyList(<<>>)),
     Unparseable}

RenderCalls ==
    {[op |-> "generate_webpage", summary_files |-> files] :
        files \in ListsUpTo(WrittenFiles \cup ForeignFiles, MaxFiles)}

InitRender ==
    /\ DiskInit
    /\ MainInit
    /\ fnArgs \in RenderCalls
    /\ fnResult = None

ApplyRender ==
    /\ fnArgs.op = "generate_webpage"
    /\ fnResult = None
    /\ LET first == generate_webpage(fnArgs.summary_files, <<>>, 1)
       IN  fnResult' = [first  |-> first,
                        second |-> generate_webpage(fnArgs.summary_files, first, 2)]
    /\ UNCHANGED <<diskVars, runNo, faults, mainVars, paperVars, obsVars, fnArgs>>

SpecRender == InitRender /\ [][ApplyRender]_vars

\* Single calls of generate_main_index: the summary directory holds
\* recordsPerDay records for each day of a set of days, and glob lists them
\* by day, in the reverse of that, or by hour.
MaxDays == 6
MaxPerDay == 3

\* the timestamp of record h of day d: the days run from 2023-12-30 on
DayStamp(d, h) ==
    IF d <= 2 THEN Stamp(2023, 12, 29 + d, 8 + h) ELSE Stamp(2024, 1, d - 2, 8 + h)

\* the summary files of the days, recordsPerDay for each, as glob lists them
DirectoryListing(days, recordsPerDay, order) ==
    LET n == MaxDays * recordsPerDay
        DayOf(j)  == IF order = "by_hour" THEN ((j - 1) % MaxDays) + 1
                     ELSE ((j - 1) \div recordsPerDay) + 1
        HourOf(j) == IF order = "by_hour" THEN ((j - 1) \div MaxDays) + 1
                     ELSE ((j - 1) % recordsPerDay) + 1
        At(j) == IF order = "reversed" THEN n + 1 - j ELSE j
        all == [j \in 1..n |->
                   [day  |-> DayOf(At(j)),
                    file |-> RecordFile((DayOf(At(j)) - 1) * recordsPerDay + HourOf(At(j)),
                                        DayStamp(DayOf(At(j)), HourOf(At(j))))]]
        kept == SelectSeq(all, LAMBDA e : e.day \in days)
    IN  [j \in 1..Len(kept) |-> kept[j].file]

MainIndexCalls ==
    {[op |-> "generate_main_index",
      summary_files |-> DirectoryListing(days, recordsPerDay, order)] :
        days \in SUBSET (1..MaxDays), recordsPerDay \in 1..MaxPerDay,
        order \in {"by_day", "reversed", "by_hour"}}

InitMainIndex ==
    /\ DiskInit
    /\ MainInit
    /\ fnArgs \in MainIndexCalls
    /\ fnResult = None

ApplyMainIndex ==
    /\ fnArgs.op = "generate_main_index"
    /\ fnResult = None
    /\ fnResult' = [out |-> generate_main_index(<<>>, classify_logs_by_date(fnArgs.summary_files), 1)]
    /\ UNCHANGED <<diskVars, runNo, faults, mainVars, paperVars, obsVars, fnArgs>>

SpecMainIndex == InitMainIndex /\ [][ApplyMainIndex]_vars

\* Single derivations of the identifier of a content URL, by main for the
\* skip check and by download_pdf for the files process_paper writes.  The
\* last path part is a stem of up to MaxStem characters, with or without
\* ".pdf".
MaxStem == 3

\* "hep-th/", the archive prefix of an old-scheme identifier
ArchivePart == <<104, 101, 112, 45, 116, 104, 47>>

\* the stems: digits and dots, the empty stem among them
Stems == ListsUpTo({49, Dot}, MaxStem)

IdentifierCalls ==
    {[op |-> "derive_id", stem |-> stem,
      paper |-> [pdf_url |-> PdfUrlPrefix \o archive \o stem \o ext]] :
        stem \in Stems, archive \in {<<>>, ArchivePart}, ext \in {<<>>, PdfExt}}

InitIdentifier ==
    /\ DiskInit
    /\ MainInit
    /\ fnArgs \in IdentifierCalls
    /\ fnResult = None

ApplyIdentifier ==
    /\ fnArgs.op = "derive_id"
    /\ fnResult = None
    /\ fnResult' = [skip_check |-> SummaryFileName(extract_arxiv_id(fnArgs.paper)),
                    record     |-> SummarizerFileName(DownloadArxivId(fnArgs.paper))]
    /\ UNCHANGED <<diskVars, runNo, faults, mainVars, paperVars, obsVars, fnArgs>>

SpecIdentifier == InitIdentifier /\ [][ApplyIdentifier]_vars

\* Single round trips of a document through the search cache: save_cache
\* writes the list holding it, load_cache reads the file, and main rebuilds
\* the arxiv.Result from the dict read.  arxiv.Result is taken to keep the
\* keyword arguments main gives it.
MaxMoments == 4

\* "hep-th/9901v1", an identifier of the old scheme
OldStyleId == <<104, 101, 112, 45, 116, 104, 47, 57, 57, 48, 49, 118, 49>>

\* pdf links of the feed: new and old identifiers, with and without ".pdf"
RoundTripUrls ==
    {PdfUrlPrefix \o ArxivIdOf(1),
     PdfUrlPrefix \o ArxivIdOf(2) \o PdfExt,
     PdfUrlPrefix \o OldStyleId,
     PdfUrlPrefix \o OldStyleId \o PdfExt}

\* the arxiv.Result of the feed with this pdf link, published at moment p and
\* updated at moment u
FetchedPaper(url, p, u) ==
    [entry_id  |-> EntryIdPrefix \o SliceFrom(url, Len(PdfUrlPrefix)),
     title     |-> <<84, 233>>,
     summary   |-> <<65, 10, 66>>,
     pdf_url   |-> url,
     published |-> Datetime(p),
     updated   |-> Datetime(u),
     authors   |-> <<1>>]

RoundTripCalls ==
    {[op |-> "round_trip", paper |-> FetchedPaper(url, p, u)] :
        url \in RoundTripUrls, p \in 1..MaxMoments, u \in 1..MaxMoments}

InitRoundTrip ==
    /\ DiskInit
    /\ MainInit
    /\ fnArgs \in RoundTripCalls
    /\ fnResult = None

ApplyRoundTrip ==
    /\ fnArgs.op = "round_trip"
    /\ fnResult = None
    /\ LET saved  == save_cache(Absent, SerializableData(<<fnArgs.paper>>), "ok").file
           loaded == load_cache(saved, TRUE).val
       IN  fnResult' = [paper_dict |-> loaded.items[1],
                        paper      |-> ResultFromDict(loaded.items[1])]
    /\ UNCHANGED <<diskVars, runNo, faults, mainVars, paperVars, obsVars, fnArgs>>

SpecRoundTrip == InitRoundTrip /\ [][ApplyRoundTrip]_vars

(***************************************************************************)
(* Properties.  events is the record of the current run.                   *)
(***************************************************************************)
Has(ev, i) == \E k \in DOMAIN events : events[k].ev = ev /\ events[k].i = i
HasN(ev, i, n) == \E k \in DOMAIN events : events[k] = Event(ev, i, n)
Before(e1, e2) ==
    \E a \in DOMAIN events :
        events[a] = e1 /\ \E b \in DOMAIN events : b > a /\ events[b] = e2
CountEv(ev, i) == Cardinality({k \in DOMAIN events : events[k].ev = ev /\ events[k].i = i})

\* the positions of results whose record existed when the loop reached them
ReachedWithRecord == {events[k].i : k \in {j \in DOMAIN events :
                                            events[j].ev = "reached" /\ events[j].n = 1}}

\* the loop has left position i behind
Finished(i) == idx > i

\* the record file of the document at position i
RecordFileOf(i) == SummaryFileName(extract_arxiv_id(results[i]))

\* the record of position i on disk is one this run wrote in process_paper
NewRecordOnDisk(i) ==
    /\ RecordFileOf(i) \in DOMAIN summaryFiles
    /\ summaryFiles[RecordFileOf(i)].st = "json"
    /\ summaryFiles[RecordFileOf(i)].val.timestamp = runNo
    /\ DOMAIN summaryFiles[RecordFileOf(i)].val =
           {"title", "timestamp", "summary", "post_text", "arxiv_id"}

StageEvents == {"process_paper", "download_pdf", "http_get", "extract_text_from_pdf",
                "read_text", "generate_summary", "api_call"}

\* C1: in a run without force, a document whose record file exists when the
\* loop reaches it is skipped: process_paper is not called for it, so
\* download_pdf, extract_text_from_pdf and generate_summary are not invoked
\* for it and no request is made for it in that run.
C1_SkipInvokesNoStage ==
    ~force => \A i \in ReachedWithRecord :
                  /\ Has("skip", i)
                  /\ \A ev \in StageEvents : ~Has(ev, i)

\* C1: a run without force is complete and has skipped a document
C1_Witness ==
    /\ pc = "done"
    /\ ~force
    /\ \E i \in ReachedWithRecord : Has("skip", i)

StageFailed(i) ==
    \/ \E n \in {1, 2} : HasN("http_get", i, n)
    \/ HasN("extract_text_from_pdf", i, 1)
    \/ HasN("read_text", i, 1)
    \/ HasN("generate_summary", i, 1)
    \/ Has("return_none", i)
    \/ \E n \in {1, 2} : HasN("write_summary", i, n)
    \/ \E n \in {1, 2} : HasN("write_log", i, n)

\* C3 as stated: a failure of any stage of one document (retrieval,
\* extraction, reading the extracted text, summarization, writing the record
\* or its log copy) does not end the run: the loop goes on to the next
\* document.
C3_FailureDoesNotAbort ==
    \A i \in 1..Len(results) : StageFailed(i) => (pc # "crashed" /\ Finished(i))

\* C4 as stated: when an earlier run has fetched and saved the results for
\* the search key of this run, the cache file was read, and this run is not
\* forced, the run finds its key in the loaded cache and does not call
\* search_arxiv.
C4_SecondRunHitsCache ==
    (/\ pc \notin {"idle", "search", "crashed"}
     /\ ~force
     /\ search_key \in savedKeyAtStart
     /\ events[1] = Event("load_search_cache", 0, 0))
    => (Has("cache_hit", 0) /\ ~Has("search_arxiv", 0))

\* every position of results has been skipped, processed or has failed
Handled(i) == Has("skip", i) \/ Has("return_true", i) \/ Has("return_false", i)

\* C5: generate_webpage is invoked at most once in a run; in a completed run
\* it was invoked exactly once, as the last step, after every document of the
\* results was skipped, processed or had failed, and it read every record
\* file of the summary directory, those of earlier runs included.
C5_RenderOnceOverAllRecords ==
    /\ CountEv("generate_webpage", 0) <= 1
    /\ Has("generate_webpage", 0) => \A i \in 1..Len(results) : Handled(i)
    /\ pc = "done" =>
           /\ CountEv("generate_webpage", 0) = 1
           /\ events[Len(events)] = Event("generate_webpage", 0, 0)
           /\ rendered = DOMAIN summaryFiles
           /\ DOMAIN startSummaryFiles \subseteq rendered

\* C5: a run that processed nothing new has rendered the records on disk
C5_Witness ==
    /\ pc = "done"
    /\ processed_papers = <<>>
    /\ results # <<>>
    /\ rendered # {}

\* the function of the single-call specifications has been applied
Applied(op) == fnArgs.op = op /\ fnResult # None

\* C6: with S the length of the summary text and L the length of the
\* canonical link, post_text is the summary, a blank line ("\n\n") and the
\* link if and only if S + L + 2 <= 280, and otherwise it is the summary
\* text itself.
C6_PostTextLinkIffFits ==
    Applied("post_text") =>
        LET summary_text == fnResult.summary
            link == AbsUrlPrefix \o fnArgs.arxiv_id
            S == Len(summary_text)
            L == Len(link)
            with_link == summary_text \o <<10, 10>> \o link
        IN  /\ (fnResult.post_text = with_link) <=> (S + L + 2 <= 280)
            /\ ~(S + L + 2 <= 280) => fnResult.post_text = summary_text

\* C6: a summary that fits exactly (S + L + 2 = 280) got its link
C6_Witness ==
    /\ Applied("post_text")
    /\ Len(fnResult.summary) + Len(AbsUrlPrefix \o fnArgs.arxiv_id) + 2 = 280
    /\ Len(fnResult.post_text) = 280

\* the number of places of text where part occurs
Occurrences(part, text) ==
    Cardinality({k \in 1..(Len(text) - Len(part) + 1) :
                    SubSeq(text, k, k + Len(part) - 1) = part})

\* C7: with the default max_length M = 10000, truncate_text returns a text
\* of more than M characters as its first 5000 characters, the omission
\* marker "\n...(中略)...\n" and its last 5000 characters, the marker
\* occurring once; a text of at most M characters is returned as it is.
C7_TruncateKeepsHalves ==
    (Applied("truncate_text") /\ fnArgs.max_length = 10000) =>
        LET text == fnArgs.text
            n == Len(text)
        IN  IF n > 10000
            THEN /\ fnResult.val = SubSeq(text, 1, 5000) \o OmissionMarker
                                   \o SubSeq(text, n - 4999, n)
                 /\ Occurrences(OmissionMarker, fnResult.val) = 1
            ELSE fnResult.val = text

\* C7: a text one character over the maximum has been truncated
C7_Witness ==
    /\ Applied("truncate_text")
    /\ fnArgs.max_length = 10000
    /\ Len(fnArgs.text) = 10001
    /\ fnResult.val # fnArgs.text

\* the positions of results for which generate_summary reached the API loop
SummarizedPositions == {i \in 1..Len(results) : HasN("generate_summary", i, 0)}

C8_Calls(i) ==
    /\ CountEv("api_call", i) <= 3
    \* no call after the attempt that succeeded
    /\ \A k \in DOMAIN events :
           (events[k].ev = "attempt_ok" /\ events[k].i = i) =>
               \A j \in DOMAIN events :
                   (j > k /\ events[j].i = i) => events[j].ev # "api_call"
    \* None after the third failed attempt, returned to process_paper, which
    \* returns False to main: the loop goes on
    /\ \A k \in DOMAIN events :
           (events[k].ev = "return_none" /\ events[k].i = i) =>
               /\ events[k].n = 3
               /\ CountEv("api_call", i) = 3
               /\ CountEv("attempt_failed", i) = 3
               /\ k < Len(events)
               /\ events[k + 1] = Event("return_false", i, 3)
               /\ Finished(i)
    \* the call is over with a record or with None
    /\ Finished(i) => (Has("attempt_ok", i) \/ Has("return_none", i))
    /\ ~(Has("attempt_ok", i) /\ Has("return_none", i))

C8_State ==
    /\ \A i \in SummarizedPositions : C8_Calls(i)
    /\ pc = "api" => (retry_count < 3 /\ ~Has("attempt_ok", idx) /\ ~Has("return_none", idx))
    /\ crash # "generate_summary"

\* every pass of the retry loop ends the call or counts one more attempt
C8_Step == pc = "api" => (pc' # "api" \/ retry_count' = retry_count + 1)

\* C8: one call of generate_summary calls the API at most 3 times and not
\* again after an attempt succeeded; after 3 failed attempts it returns
\* None, which process_paper turns into False, and the run goes on; inside
\* the retry loop fewer than 3 attempts are made and every pass ends the call
\* or counts one more attempt, so the call ends after at most 3 passes with a
\* record or with None.
C8_AtMostThreeAttempts == []C8_State /\ [][C8_Step]_vars

\* C8: a run is complete in which all 3 attempts for a document failed
C8_Witness ==
    /\ pc = "done"
    /\ \E i \in 1..Len(results) :
           /\ HasN("return_none", i, 3)
           /\ CountEv("api_call", i) = 3

\* how often x occurs in list
TimesIn(x, list) == Cardinality({k \in DOMAIN list : list[k] = x})
IsPermutation(a, b) ==
    /\ Len(a) = Len(b)
    /\ \A x \in KeywordUniverse : TimesIn(x, a) = TimesIn(x, b)

\* C9: for two keyword lists that are permutations of each other and one
\* since-timestamp, get_cache_key("search", ...) gives the same key.
C9_KeyIgnoresKeywordOrder ==
    (/\ Applied("get_cache_key")
     /\ IsPermutation(fnArgs.keywords, fnArgs.other_keywords)
     /\ fnArgs.timestamp = fnArgs.other_timestamp)
    => fnResult.val = fnResult.other

\* C9: two different orders of the same keywords got one key
C9_Witness ==
    /\ Applied("get_cache_key")
    /\ fnArgs.keywords # fnArgs.other_keywords
    /\ IsPermutation(fnArgs.keywords, fnArgs.other_keywords)
    /\ fnArgs.timestamp = fnArgs.other_timestamp
    /\ fnResult.val = fnResult.other

\* a save_cache call of this run whose write failed
SaveFailed(ev, i) == \E n \in {1, 2} : HasN(ev, i, n)

\* C10: no run ends by an exception of load_cache or save_cache.  After the
\* caches are loaded, a cache whose file is absent, unparseable or could not
\* be read is the empty dict.  After a failed write of the search cache the
\* run goes on with the fetched results; after a failed write of the paper
\* cache the run goes on and the in-memory paper cache holds the entry.
C10_CacheFailuresDoNotAbort ==
    /\ crash \notin {"load_cache", "save_cache"}
    /\ pc = "search" =>
           /\ (searchCacheFile.st # "json" \/ HasN("load_search_cache", 0, 1))
                  => search_cache = EmptyDict
           /\ (paperCacheFile.st # "json" \/ HasN("load_paper_cache", 0, 1))
                  => paper_cache = EmptyDict
    /\ SaveFailed("save_search_cache", 0) => idx >= 1
    /\ \A i \in 1..Len(results) :
           SaveFailed("save_paper_cache", i) =>
               /\ Finished(i)
               /\ PaperCacheKey(extract_arxiv_id(results[i])) \in DOMAIN paper_cache.map

\* C10: a run has loaded a cache file that json.load rejects
C10_Witness ==
    /\ pc = "search"
    /\ searchCacheFile.st = "unparseable"
    /\ search_cache = EmptyDict

\* the records of a renderer call: the files json.load reads as an object
\* with a timestamp
IsRecord(file) ==
    /\ file.st = "json"
    /\ IsJsonObject(file.val)
    /\ "timestamp" \in DOMAIN file.val

\* "YYYY-MM-DD HH:MM:SS" with every field zero-padded, of a day and a time
\* that exist
WellFormedStamp(ts) ==
    /\ Len(ts) = 19
    /\ ts[5] = Hyphen /\ ts[8] = Hyphen /\ ts[11] = Space
    /\ ts[14] = Colon /\ ts[17] = Colon
    /\ \A k \in (1..19) \ {5, 8, 11, 14, 17} : IsDigit(ts[k])
    /\ Strptime(ts).ok

\* the page a file of the output directory holds, and its name without ".html"
PageOf(out, name) == out[name][Len(out[name])]
PagesOfKind(out, kind) == {name \in DOMAIN out : PageOf(out, name).page = kind}
Stem(name) == SubSeq(name, 1, Len(name) - Len(HtmlExt))

\* the positions of the records of files whose timestamp starts with prefix
RecordsWith(files, prefix) ==
    {k \in DOMAIN files : IsRecord(files[k]) /\ StartsWith(files[k].val.timestamp, prefix)}

\* the dates (n = 10), months (n = 7) or years (n = 4) of the records of files
\* whose timestamp starts with prefix
PortionsWith(files, prefix, n) ==
    {SubSeq(files[k].val.timestamp, 1, n) : k \in RecordsWith(files, prefix)}

\* links is one link per element of portions, each with the count of the
\* records of that portion
LinksShow(files, links, portions) ==
    /\ Len(links) = Cardinality(portions)
    /\ {Stem(links[j].href) : j \in DOMAIN links} = portions
    /\ \A j \in DOMAIN links :
          links[j].count = Cardinality(RecordsWith(files, Stem(links[j].href)))

\* C11: when every record of the summary directory that the renderer takes
\* has a well-formed timestamp, each record is listed on the daily page of
\* the date portion of its timestamp and on no other daily page; the monthly
\* index of its (year, month) and the yearly index of its year count it, and
\* no other monthly or yearly index does; the count shown for a day, a month
\* or a year is the number of records of that day, month or year.
C11_DateBucketing ==
    Applied("generate_webpage") =>
    LET files == fnArgs.summary_files
        out   == fnResult.first
        all   == RecordsWith(files, <<>>)
        Title(k) == files[k].val.title
        ListedOn(k, name) ==
            \E j \in DOMAIN PageOf(out, name).cards :
                /\ PageOf(out, name).cards[j].title = Title(k)
                /\ PageOf(out, name).cards[j].arxiv_url = ArxivUrl(files[k].val.arxiv_id)
    IN  (\A k \in all : WellFormedStamp(files[k].val.timestamp)) =>
        /\ PagesOfKind(out, "daily")
              = {d \o HtmlExt : d \in PortionsWith(files, <<>>, 10)}
        /\ PagesOfKind(out, "monthly")
              = {m \o HtmlExt : m \in PortionsWith(files, <<>>, 7)}
        /\ PagesOfKind(out, "yearly")
              = {y \o HtmlExt : y \in PortionsWith(files, <<>>, 4)}
        /\ \A k \in all : \A name \in PagesOfKind(out, "daily") :
              ListedOn(k, name) <=> name = SubSeq(files[k].val.timestamp, 1, 10) \o HtmlExt
        /\ \A name \in PagesOfKind(out, "daily") :
              Len(PageOf(out, name).cards) = Cardinality(RecordsWith(files, Stem(name)))
        /\ \A name \in PagesOfKind(out, "monthly") :
              LinksShow(files, PageOf(out, name).links,
                        PortionsWith(files, Stem(name), 10))
        /\ \A name \in PagesOfKind(out, "yearly") :
              LinksShow(files, PageOf(out, name).links,
                        PortionsWith(files, Stem(name), 7))
        /\ LET archive == PageOf(out, IndexName).archive
           IN  /\ LinksShow(files, archive, PortionsWith(files, <<>>, 4))
               /\ \A j \in DOMAIN archive :
                     archive[j].months # <<>> =>
                        LinksShow(files, archive[j].months,
                                  PortionsWith(files, Stem(archive[j].href), 7))

\* three well-formed records of one year: two of one day, one of another
\* month
C11_Witness ==
    /\ Applied("generate_webpage")
    /\ LET files == fnArgs.summary_files
       IN  /\ \A k \in RecordsWith(files, <<>>) : WellFormedStamp(files[k].val.timestamp)
           /\ \E d \in PortionsWith(files, <<>>, 10) :
                 /\ Cardinality(RecordsWith(files, d)) = 2
                 /\ Len(PageOf(fnResult.first, d \o HtmlExt).cards) = 2
           /\ Cardinality(PortionsWith(files, <<>>, 7)) = 2
           /\ Cardinality(PortionsWith(files, <<>>, 4)) = 1

\* a page without its embedded last-updated timestamp, and a file of the
\* output directory with that timestamp taken out of all it holds
WithoutUpdated(page) == [f \in DOMAIN page \ {"updated"} |-> page[f]]
FileWithoutUpdated(chunks) == [k \in DOMAIN chunks |-> WithoutUpdated(chunks[k])]

\* C12: generate_webpage run twice on the same records and the same output
\* directory leaves the same set of files after the second run as after the
\* first, each with the same content apart from the last-updated timestamp.
C12_RenderIdempotent ==
    Applied("generate_webpage") =>
        /\ DOMAIN fnResult.second = DOMAIN fnResult.first
        /\ \A name \in DOMAIN fnResult.first :
              FileWithoutUpdated(fnResult.second[name])
                 = FileWithoutUpdated(fnResult.first[name])

\* two runs over records of two days, the second at a later time than the
\* first
C12_Witness ==
    /\ Applied("generate_webpage")
    /\ Cardinality(PagesOfKind(fnResult.first, "daily")) >= 2
    /\ PagesOfKind(fnResult.second, "daily") = PagesOfKind(fnResult.first, "daily")
    /\ \A name \in PagesOfKind(fnResult.first, "daily") :
          PageOf(fnResult.second, name).updated # PageOf(fnResult.first, name).updated

\* a summary file the renderer cannot use: json.load rejects its text, or it
\* is no object, or strptime rejects its timestamp
Malformed(file) ==
    \/ file.st # "json"
    \/ ~IsJsonObject(file.val)
    \/ IsRecord(file) /\ ~Strptime(file.val.timestamp).ok

\* the files of a directory that are not malformed, in the same order
WithoutMalformed(files) == SelectSeq(files, LAMBDA file : ~Malformed(file))

\* C20: rendering a directory that holds malformed summary files (text that
\* is no JSON, or a timestamp strptime rejects) completes, and the output is
\* the output of rendering the directory without those files: the other
\* records are bucketed and shown as if the malformed files were absent.
C20_MalformedFilesSkipped ==
    Applied("generate_webpage") =>
        fnResult.first = generate_webpage(WithoutMalformed(fnArgs.summary_files), <<>>, 1)

\* a directory with a file that is no JSON, a record whose timestamp has no
\* time of day, and a record that is rendered
C20_Witness ==
    /\ Applied("generate_webpage")
    /\ LET files == fnArgs.summary_files
       IN  /\ \E k \in DOMAIN files : files[k] = Unparseable
           /\ \E k \in DOMAIN files :
                 IsRecord(files[k]) /\ files[k].val.timestamp = DateOnlyStamp
           /\ Len(WithoutMalformed(files)) = 1
           /\ Cardinality(PagesOfKind(fnResult.first, "daily")) = 1

\* the five fields of a Processed-Paper Record
RecordFields == {"title", "arxiv_id", "timestamp", "summary", "post_text"}

\* the files of summary/ whose name starts with the id process_paper used
\* for the document at position i
FilesOfId(i) ==
    {name \in DOMAIN summaryFiles : StartsWith(name, DownloadArxivId(results[i]))}

\* C13: whenever process_paper has returned True for a document in this run,
\* summary/ holds exactly one file for the document's id, the file both
\* generate_summary and process_paper wrote to, and it holds a record with
\* the five fields title, arxiv_id, timestamp, summary and post_text.
C13_OneRecordPerSuccess ==
    \A i \in 1..Len(results) :
        Has("return_true", i) =>
            /\ FilesOfId(i) = {SummaryFileName(DownloadArxivId(results[i]))}
            /\ \A name \in FilesOfId(i) :
                  /\ summaryFiles[name].st = "json"
                  /\ DOMAIN summaryFiles[name].val = RecordFields
                  /\ summaryFiles[name].val.arxiv_id = DownloadArxivId(results[i])

\* a forced run has processed a document whose record existed before, and
\* both writes went to that file
C13_Witness ==
    \E i \in 1..Len(results) :
        /\ HasN("reached", i, 1)
        /\ Has("attempt_ok", i)
        /\ Has("return_true", i)
        /\ NewRecordOnDisk(i)
        /\ Cardinality(FilesOfId(i)) = 1

C15_SearchCacheHoldsFetchUnderKey ==
    (/\ Has("search_arxiv", 0)
     /\ HasN("save_search_cache", 0, 0))
    => /\ searchCacheFile.st = "json"
       /\ searchCacheFile.val.py = "dict"
       /\ search_key \in DOMAIN searchCacheFile.val.map
       /\ searchCacheFile.val.map[search_key] = SerializableData(results)

\* the wait generate_summary makes after failed attempt n: 2, then 4
WaitAfter(n) == IF n = 1 THEN 2 ELSE 4

\* event k is a failed attempt, and it was attempt n of its call
FailedAttempt(k, n) ==
    /\ k > 1
    /\ events[k].ev = "attempt_failed"
    /\ events[k - 1].ev = "api_call"
    /\ events[k - 1].n = n

\* C16: in a generate_summary call, failed attempt 1 is followed by a wait of
\* 2 and failed attempt 2 by a wait of 4, each before the next attempt; there
\* is no other wait: none follows a successful attempt, and none follows the
\* third failed attempt, after which the call returns.
C16_BackoffTwoThenFour ==
    \A k \in DOMAIN events :
        /\ events[k].ev = "sleep" =>
              \E n \in {1, 2} : FailedAttempt(k - 1, n) /\ events[k].n = WaitAfter(n)
        /\ \A n \in {1, 2} :
              FailedAttempt(k, n) =>
                 /\ k < Len(events)
                 /\ events[k + 1] = Event("sleep", events[k].i, WaitAfter(n))
                 /\ k + 1 < Len(events) =>
                       events[k + 2] = Event("api_call", events[k].i, n + 1)
        /\ FailedAttempt(k, max_retries) =>
              /\ k < Len(events)
              /\ events[k + 1] = Event("return_none", events[k].i, max_retries)
        /\ (events[k].ev = "attempt_ok" /\ k < Len(events)) =>
              events[k + 1].ev # "sleep"

\* a call whose three attempts failed: it waited 2, then 4, and returned
\* after the third failure
C16_Witness ==
    \E k \in DOMAIN events :
        /\ FailedAttempt(k, max_retries)
        /\ HasN("sleep", events[k].i, 2)
        /\ Before(Event("sleep", events[k].i, 2), Event("sleep", events[k].i, 4))
        /\ CountEv("sleep", events[k].i) = 2
        /\ events[Len(events)].ev # "sleep"

\* the events of the loop over results: those of a position of the list
LoopEvents == {k \in DOMAIN events : events[k].i >= 1}

\* every event ev of position i comes after event first of position i whose
\* detail is among details
OnlyAfter(ev, i, first, details) ==
    \A b \in DOMAIN events :
        (events[b].ev = ev /\ events[b].i = i) =>
            \E a \in 1..(b - 1) :
                events[a].ev = first /\ events[a].i = i /\ events[a].n \in details

\* the events that end the handling of a document
ClosingEvents == {"skip", "return_false", "save_paper_cache"}

\* the stages of a document
DocumentStages == {"download_pdf", "extract_text_from_pdf", "generate_summary",
                   "write_summary", "paper_cache"}

\* the documents of results are handled one at a time in list order and each
\* at most once in a run; for a document the stages come in the order
\* retrieve, extract, summarize, persist record, update Paper-Cache, each at
\* most once and only after the stage before it succeeded; the next document
\* is reached only when the handling of the current one has ended
StagesInOrder ==
    /\ \A k \in LoopEvents : \A l \in LoopEvents :
          k < l => events[k].i <= events[l].i
    /\ \A k \in LoopEvents :
          events[k].ev = "reached" =>
             /\ events[k].i \in 1..Len(results)
             /\ IF events[k].i = 1 THEN events[k - 1].i = 0
                ELSE /\ events[k - 1].i = events[k].i - 1
                     /\ events[k - 1].ev \in ClosingEvents
    /\ \A i \in 1..Len(results) :
          /\ CountEv("reached", i) <= 1
          /\ \A ev \in DocumentStages \cup {"process_paper"} : CountEv(ev, i) <= 1
          /\ \A ev \in DocumentStages \cup {"process_paper", "skip"} :
                OnlyAfter(ev, i, "reached", {0, 1})
          /\ OnlyAfter("download_pdf", i, "process_paper", {0})
          /\ OnlyAfter("extract_text_from_pdf", i, "download_pdf", {0})
          /\ Has("extract_text_from_pdf", i) =>
                ~\E k \in DOMAIN events :
                    events[k].ev = "http_get" /\ events[k].i = i /\ events[k].n # 0
          /\ OnlyAfter("generate_summary", i, "extract_text_from_pdf", {0})
          /\ OnlyAfter("generate_summary", i, "read_text", {0})
          /\ OnlyAfter("write_summary", i, "attempt_ok", 1..max_retries)
          /\ OnlyAfter("paper_cache", i, "write_summary", {0})
          /\ OnlyAfter("paper_cache", i, "return_true", {0})

\* the run has ended, by reaching its end or by an uncaught exception
RunEnded == pc \in {"done", "crashed"}

\* C17 as stated: the documents of results are handled one at a time in list
\* order, the stages of a document come in order and each only after the one
\* before it succeeded, the next document starts only when the current one is
\* finished, and when the run has ended every document of results was
\* handled exactly once.
C17_EachExactlyOncePerRun ==
    /\ StagesInOrder
    /\ RunEnded => \A i \in 1..Len(results) : CountEv("reached", i) = 1

\* the record file of the document at position i is not as it was when the
\* run started
RecordChanged(i) ==
    FileIn(summaryFiles, RecordFileOf(i)) # FileIn(startSummaryFiles, RecordFileOf(i))

\* the summarization API has answered a call for the document at position i:
\* the attempt succeeded, or it failed only in saving the result
ApiCallSucceeded(i) ==
    \/ Has("attempt_ok", i)
    \/ \E outcome \in {"denied", "partial"} :
          HasN("attempt_failed", i, OutcomeCode(outcome))

\* C18 as stated: the record file of a document is created or overwritten in
\* a run only if retrieval, extraction and a summarization API call succeeded
\* for it in that run; when its retrieval failed, its extraction failed or
\* all three summarization attempts failed, its record file is as it was
\* when the run started (absent, or the existing record unchanged).
C18_RecordOnlyAfterChain ==
    \A i \in 1..Len(results) :
        /\ RecordChanged(i) =>
              /\ Has("download_pdf", i) /\ ~HasN("return_false", i, 1)
              /\ HasN("extract_text_from_pdf", i, 0)
              /\ ApiCallSucceeded(i)
        /\ (\/ HasN("return_false", i, 1)
            \/ HasN("return_false", i, 2)
            \/ HasN("return_none", i, max_retries)) => ~RecordChanged(i)

\* the identifier main derives for the document at position i
IdOf(i) == extract_arxiv_id(results[i])

\* the positions for which main has updated the Paper-Cache in this run
CachedPositions == {i \in 1..Len(results) : Has("paper_cache", i)}

C19_State ==
    /\ \A i \in CachedPositions :
          /\ Has("return_true", i)
          /\ NewRecordOnDisk(i)
          /\ PaperCacheKey(IdOf(i)) \in DOMAIN paper_cache.map
          /\ paper_cache.map[PaperCacheKey(IdOf(i))].id = IdOf(i)
    /\ {processed_papers[k].id : k \in DOMAIN processed_papers}
          = {IdOf(i) : i \in CachedPositions}
    /\ Len(processed_papers) = Cardinality(CachedPositions)
    /\ \A i \in 1..Len(results) :
          (Has("skip", i) \/ Has("return_false", i)) =>
             /\ i \notin CachedPositions
             /\ ~Has("save_paper_cache", i)

C19_Step ==
    LET succeeded == /\ pc = "cache"
                     /\ Has("return_true", idx)
                     /\ NewRecordOnDisk(idx)
    IN  /\ paperCacheFile' # paperCacheFile => succeeded
        /\ (runNo' = runNo /\ paper_cache' # paper_cache) =>
              /\ succeeded
              /\ DOMAIN paper_cache'.map \ DOMAIN paper_cache.map
                    \subseteq {PaperCacheKey(IdOf(idx))}
              /\ \A key \in DOMAIN paper_cache.map \ {PaperCacheKey(IdOf(idx))} :
                    paper_cache'.map[key] = paper_cache.map[key]
        /\ (runNo' = runNo /\ processed_papers' # processed_papers) =>
              /\ succeeded
              /\ Len(processed_papers') = Len(processed_papers) + 1
              /\ SubSeq(processed_papers', 1, Len(processed_papers)) = processed_papers
              /\ processed_papers'[Len(processed_papers')].id = IdOf(idx)

\* C19: at every point of a run, the entries the run has added to the
\* Paper-Cache and to the report (processed_papers) are those of documents
\* for which process_paper returned True in this run and whose record file is
\* on disk; a document that was skipped or that failed has added none; and
\* the Paper-Cache, its file and the report change only directly after such
\* a success, by the entry of that document.
C19_CacheEntriesOnlyAfterSuccess == []C19_State /\ [][C19_Step]_vars

\* the first document failed and the second succeeded: the Paper-Cache file
\* and the report hold the second only
C19_Witness ==
    /\ Len(results) = 2
    /\ Has("return_false", 1)
    /\ HasN("save_paper_cache", 2, 0)
    /\ Len(processed_papers) = 1
    /\ paperCacheFile.st = "json"
    /\ DOMAIN paperCacheFile.val.map = {PaperCacheKey(IdOf(2))}

\* the positions of the records of files in the n most recent date buckets
InLatestBuckets(files, n) ==
    LET dates == PortionsWith(files, <<>>, 10)
        latest == {d \in dates :
                      Cardinality({e \in dates : e # d /\ StrLeq(d, e)}) < n}
    IN  {k \in RecordsWith(files, <<>>) : SubSeq(files[k].val.timestamp, 1, 10) \in latest}

\* C21: the main index lists at most 10 records, each once and each of one
\* of the 5 most recent date buckets, latest generation timestamp first; a
\* record of those buckets that is not listed is no more recent than any
\* listed one, and all records of those buckets are listed when they are
\* fewer than 10.
C21_MainIndexLatestTen ==
    Applied("generate_main_index") =>
    LET files == fnArgs.summary_files
        cards == PageOf(fnResult.out, IndexName).cards
        pool  == InLatestBuckets(files, 5)
        Shown(j) == {k \in pool : /\ files[k].val.title = cards[j].title
                                  /\ ArxivUrl(files[k].val.arxiv_id) = cards[j].arxiv_url}
        shown == UNION {Shown(j) : j \in DOMAIN cards}
        When(k) == files[k].val.timestamp
    IN  /\ Len(cards) = Min(10, Cardinality(pool))
        /\ \A j \in DOMAIN cards : Cardinality(Shown(j)) = 1
        /\ Cardinality(shown) = Len(cards)
        /\ \A j \in 1..(Len(cards) - 1) :
              \A a \in Shown(j) : \A b \in Shown(j + 1) :
                 When(a) # When(b) /\ StrLeq(When(b), When(a))
        /\ \A k \in pool \ shown : \A l \in shown : StrLeq(When(k), When(l))

\* six days of three records each: the five latest days hold fifteen
\* records, of which the index shows ten
C21_Witness ==
    /\ Applied("generate_main_index")
    /\ Cardinality(PortionsWith(fnArgs.summary_files, <<>>, 10)) = 6
    /\ Cardinality(InLatestBuckets(fnArgs.summary_files, 5)) = 15
    /\ Len(fnArgs.summary_files) = 18
    /\ Len(PageOf(fnResult.out, IndexName).cards) = 10

\* C22 as stated: for every text longer than max_length, the text
\* truncate_text returns is strictly shorter than the text it was given.
C22_TruncateShortens ==
    (Applied("truncate_text") /\ Len(fnArgs.text) > fnArgs.max_length) =>
        Len(fnResult.val) < Len(fnArgs.text)

\* C23 as stated: for every max_length >= 2, even or odd, and every text
\* longer than max_length, truncate_text returns a prefix of the text, the
\* omission marker and a suffix of the text, the prefix and the suffix of
\* the same length.
C23_EqualHalves ==
    (/\ Applied("truncate_text")
     /\ fnArgs.max_length >= 2
     /\ Len(fnArgs.text) > fnArgs.max_length) =>
        \E p \in 0..Len(fnArgs.text) :
            fnResult.val = SubSeq(fnArgs.text, 1, p) \o OmissionMarker
                           \o SubSeq(fnArgs.text, Len(fnArgs.text) - p + 1, Len(fnArgs.text))

ProperStem(stem) == \E k \in DOMAIN stem : stem[k] # Dot

C24_ForcedRunDownloadsAgain ==
    \A i \in DOMAIN results :
        Has("download_pdf", i) =>
            /\ ~Has("http_get", i) => (~force /\ DownloadFileName(results[i]) \in dlFiles)
            /\ force => Has("http_get", i)

\* the record files in summary/ now that were not there when the run started
CreatedRecordFiles == DOMAIN summaryFiles \ DOMAIN startSummaryFiles

C26_State ==
    /\ ~force =>
          \A name \in DOMAIN startSummaryFiles :
              FileIn(summaryFiles, name) = startSummaryFiles[name]
    /\ \A name \in CreatedRecordFiles :
          \E i \in 1..Len(results) :
              /\ RecordFileOf(i) = name
              /\ HasN("generate_summary", i, 0)
              /\ \A j \in 1..Len(results) : RecordFileOf(j) = name => j = i

C26_Step == DOMAIN summaryFiles \subseteq DOMAIN summaryFiles'

\* C26: in a run without force every record file that existed when the run
\* started has the content it had then, at every point of the run and at its
\* end; every record file created during a run, forced or not, is the file of
\* exactly one document of the result list, for which generate_summary was
\* called; and no step of any run removes a record file.
C26_RecordFilesKept == []C26_State /\ [][C26_Step]_vars

\* C26: a run without force has ended that started with a record file on
\* disk, skipped its document and created the record file of another
C26_Witness ==
    /\ pc = "done"
    /\ ~force
    /\ \E i \in ReachedWithRecord : RecordFileOf(i) \in DOMAIN startSummaryFiles
    /\ CreatedRecordFiles # {}

\* the set of keywords a list denotes
KeywordSet(list) == {list[k] : k \in DOMAIN list}

\* C27 as stated: two calls of get_cache_key("search", ...) return the same
\* key exactly when their keyword lists denote the same set and their
\* since-timestamps are equal.
C27_KeyInjectiveOnKeywordSet ==
    Applied("get_cache_key") =>
        (fnResult.val = fnResult.other
            <=> (/\ KeywordSet(fnArgs.keywords) = KeywordSet(fnArgs.other_keywords)
                 /\ fnArgs.timestamp = fnArgs.other_timestamp))

\* the positions of results the loop of this run has reached
ReachedPositions == {i \in 1..Len(results) : Has("reached", i)}

\* C28: for every document the loop of a run has reached, the document was
\* skipped exactly when the run is not forced and its record file existed when
\* the loop reached it; what the search cache and the Paper-Cache hold plays
\* no part, so runs that agree on the result list, the force flag and the
\* record files skip the same documents.
C28_SkipDependsOnForceAndRecord ==
    \A i \in ReachedPositions :
        Has("skip", i) <=> (~force /\ i \in ReachedWithRecord)

\* C28: a run skipped a document that its Paper-Cache does not hold, with
\* results that did not come from the search cache it loaded
C28_Witness ==
    /\ \E i \in ReachedPositions :
          /\ Has("skip", i)
          /\ paper_cache.py = "dict"
          /\ PaperCacheKey(IdOf(i)) \notin DOMAIN paper_cache.map
    /\ HasN("search_arxiv", 0, 0)

=============================================================================
